---- MODULE Spec2Model ----
(***************************************************************************)
(* A model of the repository map generator of backend/src/utils/repomap.ts *)
(* (class RepoMap): the orchestrator get_repo_map with its refresh policy  *)
(* and circuit breaker, the tag cache getTags, the extractor getTagsRaw    *)
(* and the ranker getRankedTags.                                           *)
(*                                                                         *)
(* Strings are sequences of atoms (a text is empty iff its length is 0),   *)
(* file paths are numbered in lexicographic order, token counts are kept   *)
(* in quarter tokens so that length/4 stays an integer.                    *)
(***************************************************************************)
EXTENDS Integers, Sequences, FiniteSets, TLC

\* ------------------------------------------------------------------ bounds
\* Most ranked tags (special files included) one map computation fits.
MaxTags == 2

\* --------------------------------------------------------- program constants
DefaultMapTokens == 1024
DefaultMapMul == 8
Padding == 4096
TokensPerTag == 25
OkErrPercent == 15
ShortText == 200
AutoThreshold == 1

\* ------------------------------------------------------------------- values
\* An optional value: JS undefined/null is [set |-> FALSE].
NoInt == [set |-> FALSE, v |-> 0]
SomeInt(n) == [set |-> TRUE, v |-> n]
NoText == [set |-> FALSE, v |-> << >>]
SomeText(t) == [set |-> TRUE, v |-> t]
NoList == [set |-> FALSE, v |-> << >>]
SomeList(l) == [set |-> TRUE, v |-> l]

\* One atom of a text: a literal piece, or the rendering of k leading tags.
Lit(s) == [s |-> s, k |-> 0]
Placeholder == Lit("{other}")

\* JS truthiness of a string.
Truthy(t) == Len(t) > 0

\* x || d on a number option: undefined and 0 are falsy.
OrDefault(o, d) == IF o.set /\ o.v # 0 THEN o.v ELSE d

Min(a, b) == IF a <= b THEN a ELSE b
Abs(a) == IF a < 0 THEN -a ELSE a

\* Array.prototype.sort on a list of numbered paths (insertion sort).
RECURSIVE Insert(_, _)
Insert(x, s) ==
    IF s = << >> THEN <<x>>
    ELSE IF x <= Head(s) THEN <<x>> \o s
    ELSE <<Head(s)>> \o Insert(x, Tail(s))

RECURSIVE Sort(_)
Sort(s) == IF s = << >> THEN << >> ELSE Insert(Head(s), Sort(Tail(s)))

Range(s) == {s[i] : i \in 1..Len(s)}

\* ------------------------------------------------------------------ inputs
\* Paths, numbered in lexicographic order.
Files == {1, 2}
ChatChoices == {<< >>, <<1>>}
OtherChoices == {NoList, SomeList(<< >>), SomeList(<<1>>), SomeList(<<2, 1>>)}
\* mentioned_fnames with mentioned_idents (identifiers are numbered too).
MentionChoices == {[fnames |-> << >>, idents |-> << >>],
                   [fnames |-> <<2>>, idents |-> <<1>>]}
\* options.map_tokens as the caller constructs the instance.
MapTokensChoices == {NoInt, SomeInt(0), SomeInt(-1), SomeInt(100)}
WindowChoices == {NoInt, SomeInt(4296)}
PrefixChoices == {NoText, SomeText(<<Lit("Repo map of "), Placeholder, Lit("files:")>>)}
RefreshChoices == {"auto", "manual", "always", "files"}
\* Character lengths a rendering of one or more tags can have.
LenChoices == {1, 160, 460, 4000}

VARIABLES
    options,              \* the constructor's argument
    refresh,              \* this.refresh
    max_map_tokens,       \* this.max_map_tokens
    map_mul_no_files,     \* this.map_mul_no_files
    max_context_window,   \* this.max_context_window (null: not set)
    repo_content_prefix,  \* this.repo_content_prefix (null: not set)
    last_map,             \* this.last_map (null: not set)
    map_cache,            \* this.map_cache, a set of [key, val] entries
    map_processing_time,  \* this.map_processing_time
    pc,                   \* where the get_repo_map call in flight stands
    c,                    \* the call in flight, or the last one returned
    tripped               \* history: some call has caught a RangeError

orchVars == <<options, refresh, max_map_tokens, map_mul_no_files,
              max_context_window, repo_content_prefix, last_map, map_cache,
              map_processing_time, pc, c, tripped>>

NoKey == [chat |-> << >>, other |-> << >>, tokens |-> 0,
          fnames |-> NoList, idents |-> NoList]

NoCall == [valid |-> FALSE, chat |-> << >>, other |-> NoList,
           force |-> FALSE, configured |-> 0, budget |-> 0, key |-> NoKey,
           prevListing |-> NoText, prevComputed |-> FALSE,
           sameKey |-> FALSE, prevSlow |-> FALSE, trippedBefore |-> FALSE,
           slow |-> FALSE,
           source |-> "none", ranked |-> FALSE, renders |-> 0, threw |-> "none",
           num_tags |-> 0, lower_bound |-> 0, upper_bound |-> 0, middle |-> 0,
           best_tree |-> NoText, best_tree_tokens |-> 0,
           files_listing |-> NoText, ret |-> NoText]

\* RepoMap.constructor
Constructed(o) ==
    /\ options = o
    /\ refresh = o.refresh
    /\ max_map_tokens = OrDefault(o.map_tokens, DefaultMapTokens)
    /\ map_mul_no_files = OrDefault(o.map_mul_no_files, DefaultMapMul)
    /\ max_context_window =
          IF o.max_context_window.set /\ o.max_context_window.v # 0
          THEN o.max_context_window ELSE NoInt
    /\ repo_content_prefix =
          IF o.repo_content_prefix.set /\ Truthy(o.repo_content_prefix.v)
          THEN o.repo_content_prefix ELSE NoText
    /\ last_map = NoText
    /\ map_cache = {}
    /\ map_processing_time = 0

OrchInit ==
    /\ \E mt \in MapTokensChoices, w \in WindowChoices,
          p \in PrefixChoices, r \in RefreshChoices :
          Constructed([map_tokens |-> mt, max_context_window |-> w,
                       map_mul_no_files |-> NoInt,
                       repo_content_prefix |-> p, refresh |-> r])
    /\ pc = "idle"
    /\ c = NoCall
    /\ tripped = FALSE

\* String.prototype.replace("{other}", other): the first occurrence only.
RECURSIVE ReplaceOther(_, _)
ReplaceOther(t, other) ==
    IF t = << >> THEN << >>
    ELSE IF Head(t) = Placeholder THEN other \o Tail(t)
    ELSE <<Head(t)>> \o ReplaceOther(Tail(t), other)

\* The budget with the target applied only when it is larger.
EffectiveBudget_Expanding(chat) ==
    LET target == Min(max_map_tokens * map_mul_no_files,
                      max_context_window.v - Padding)
    IN  IF max_map_tokens # 0 /\ max_context_window.set
           /\ chat = << >> /\ target > max_map_tokens
        THEN target
        ELSE max_map_tokens

\* get_repo_map, lines 137-148: the budget handed to get_ranked_tags_map.
EffectiveBudget(chat) ==
    LET target == Min(max_map_tokens * map_mul_no_files,
                      max_context_window.v - Padding)
    IN  IF max_map_tokens # 0 /\ max_context_window.set
           /\ chat = << >> /\ target > 0
        THEN target
        ELSE max_map_tokens

\* get_ranked_tags_map, lines 495-501: the cache key (JSON of sorted inputs).
CacheKey(chat, other, tokens, fnames, idents) ==
    [chat |-> Sort(chat), other |-> Sort(other), tokens |-> tokens,
     fnames |-> IF refresh = "auto" THEN SomeList(Sort(fnames)) ELSE NoList,
     idents |-> IF refresh = "auto" THEN SomeList(Sort(idents)) ELSE NoList]

MapCacheHas(key) == \E e \in map_cache : e.key = key
MapCacheGet(key) == (CHOOSE e \in map_cache : e.key = key).val

\* get_ranked_tags_map, lines 503-515.
UseCache ==
    CASE refresh = "always" -> FALSE
      [] refresh = "files" -> TRUE
      [] refresh = "auto" -> map_processing_time > AutoThreshold
      [] OTHER -> FALSE

\* Returned without the test of line 163: an empty listing is returned too.
Returned_NoEmptyTest(listing, chat) ==
    LET other == IF Len(chat) # 0 THEN <<Lit("other ")>> ELSE << >>
        repo_content ==
            IF repo_content_prefix.set
            THEN ReplaceOther(repo_content_prefix.v, other)
            ELSE << >>
    IN  SomeText(repo_content \o listing)

\* get_repo_map, lines 163-180: what the call returns for a listing.
Returned(listing, chat) ==
    IF ~Truthy(listing) THEN NoText
    ELSE LET other == IF Len(chat) # 0 THEN <<Lit("other ")>> ELSE << >>
             repo_content ==
                 IF repo_content_prefix.set
                 THEN ReplaceOther(repo_content_prefix.v, other)
                 ELSE << >>
         IN  SomeText(repo_content \o listing)

\* The call record when get_repo_map is entered. It keeps, of the call
\* before it, what that call obtained as its listing, whether it completed
\* an uncached computation and how long that took.
Entered(chat, other, force) ==
    [NoCall EXCEPT !.valid = TRUE, !.chat = chat, !.other = other,
                   !.force = force, !.configured = max_map_tokens,
                   !.prevListing = c.files_listing,
                   !.prevComputed = (c.source = "uncached"
                                      /\ c.files_listing.set),
                   !.prevSlow = c.slow,
                   !.trippedBefore = tripped]

\* get_repo_map up to its first suspension: the guard of line 134, the budget,
\* and get_ranked_tags_map's cache policy (lines 486-529).
get_repo_map(chat, other, fnames, idents, force) ==
    /\ pc = "idle"
    /\ UNCHANGED <<options, refresh, max_map_tokens, map_mul_no_files,
                   max_context_window, repo_content_prefix, last_map,
                   map_cache, map_processing_time, tripped>>
    /\ IF max_map_tokens <= 0 \/ ~other.set
       THEN /\ c' = Entered(chat, other, force)
            /\ pc' = "idle"
       ELSE LET budget == EffectiveBudget(chat)
                key == CacheKey(chat, other.v, budget, fnames, idents)
                e == [Entered(Sort(chat), SomeList(Sort(other.v)), force)
                        EXCEPT !.budget = budget, !.key = key,
                               !.sameKey = (c.key = key)]
            IN  IF ~force /\ refresh = "manual" /\ last_map.set
                   /\ Truthy(last_map.v)
                THEN /\ c' = [e EXCEPT !.source = "manual",
                                       !.files_listing = last_map,
                                       !.ret = Returned(last_map.v, e.chat)]
                     /\ pc' = "idle"
                ELSE IF ~force /\ UseCache /\ MapCacheHas(key)
                THEN /\ c' = [e EXCEPT !.source = "cache",
                                 !.files_listing = SomeText(MapCacheGet(key)),
                                 !.ret = Returned(MapCacheGet(key), e.chat)]
                     /\ pc' = "idle"
                ELSE /\ c' = [e EXCEPT !.source = "uncached"]
                     /\ pc' = "rank"

\* Caught without line 185: the budget survives a RangeError.
Caught_KeepsBudget(kind) ==
    /\ c' = [c EXCEPT !.threw = kind, !.ret = NoText,
                       !.num_tags = 0, !.lower_bound = 0, !.upper_bound = 0,
                       !.middle = 0, !.best_tree = NoText,
                       !.best_tree_tokens = 0]
    /\ tripped' = (tripped \/ kind = "range")
    /\ pc' = "idle"
    /\ UNCHANGED <<options, refresh, max_map_tokens, map_mul_no_files,
                   max_context_window, repo_content_prefix, last_map,
                   map_cache, map_processing_time>>

\* The catch block of get_repo_map, lines 182-188.
Caught(kind) ==
    /\ c' = [c EXCEPT !.threw = kind, !.ret = NoText,
                       !.num_tags = 0, !.lower_bound = 0, !.upper_bound = 0,
                       !.middle = 0, !.best_tree = NoText,
                       !.best_tree_tokens = 0]
    /\ max_map_tokens' = IF kind = "range" THEN 0 ELSE max_map_tokens
    /\ tripped' = (tripped \/ kind = "range")
    /\ pc' = "idle"
    /\ UNCHANGED <<options, refresh, map_mul_no_files, max_context_window,
                   repo_content_prefix, last_map, map_cache,
                   map_processing_time>>

\* to_tree's text for the first k ranked tags: '' for no tag (line 640-643),
\* else a text that ends with a line break (line 718-720).
Tree(k) == IF k = 0 THEN << >> ELSE <<[s |-> "tree", k |-> k]>>

\* token_count in quarter tokens, for a text of len characters: len/4 below
\* 200 characters, else floor((sample_tokens / sample_length) * len).
token_count(len) == IF len < ShortText THEN len ELSE 4 * (len \div 4)

\* get_ranked_tags_map_uncached, lines 538-582: getRankedTags has returned
\* the ranked tags, the special files are put in front, the search starts.
\* num_tags is the environment's: the tags of the files given.
get_ranked_tags_done(num_tags) ==
    /\ pc = "rank"
    /\ (Len(c.chat) + Len(c.other.v) = 0 => num_tags = 0)
    /\ LET tokens == IF c.budget <= 0
                     THEN OrDefault(SomeInt(max_map_tokens), DefaultMapTokens)
                     ELSE c.budget
       IN  c' = [c EXCEPT !.ranked = TRUE, !.budget = tokens,
                          !.num_tags = num_tags,
                          !.lower_bound = 0, !.upper_bound = num_tags,
                          !.best_tree = NoText, !.best_tree_tokens = 0,
                          !.middle = Min(tokens \div TokensPerTag, num_tags)]
    /\ pc' = "fit"
    /\ UNCHANGED <<options, refresh, max_map_tokens, map_mul_no_files,
                   max_context_window, repo_content_prefix, last_map,
                   map_cache, map_processing_time, tripped>>

\* getRankedTags throws (a spread of too many tags, a stack overflow).
get_ranked_tags_throws(kind) ==
    /\ pc = "rank"
    /\ Caught(kind)

\* One iteration of the search, lines 585-633; len is the length of the
\* rendering of the first middle tags.
fit_iteration(len) ==
    /\ pc = "fit"
    /\ c.lower_bound <= c.upper_bound
    /\ (c.middle = 0 => len = 0)
    /\ (c.middle # 0 => len \in LenChoices)
    /\ LET tree == Tree(c.middle)
           num_tokens == token_count(len)
           max4 == 4 * c.budget
           within == 100 * Abs(num_tokens - max4) < OkErrPercent * max4
           accept == (num_tokens <= max4 /\ num_tokens > c.best_tree_tokens)
                     \/ within
           lb == IF num_tokens < max4 THEN c.middle + 1 ELSE c.lower_bound
           ub == IF num_tokens < max4 THEN c.upper_bound ELSE c.middle - 1
           best == IF accept THEN SomeText(tree) ELSE c.best_tree
           bestq == IF accept THEN num_tokens ELSE c.best_tree_tokens
       IN  IF accept /\ within
           THEN /\ c' = [c EXCEPT !.renders = 1, !.best_tree = best,
                                  !.best_tree_tokens = bestq]
                /\ pc' = "ret"
           ELSE /\ c' = [c EXCEPT !.renders = 1, !.best_tree = best,
                                  !.best_tree_tokens = bestq,
                                  !.lower_bound = lb, !.upper_bound = ub,
                                  !.middle = (lb + ub) \div 2]
                /\ pc' = IF lb <= ub THEN "fit" ELSE "ret"
    /\ UNCHANGED <<options, refresh, max_map_tokens, map_mul_no_files,
                   max_context_window, repo_content_prefix, last_map,
                   map_cache, map_processing_time, tripped>>

\* Rendering throws inside the search (the syntax tree walk overflows).
fit_throws(kind) ==
    /\ pc = "fit"
    /\ c.lower_bound <= c.upper_bound
    /\ c.middle # 0
    /\ Caught(kind)

\* get_ranked_tags_map_uncached returns best_tree || '' (line 636) and
\* get_repo_map returns (lines 163-180). slow: whether this computation
\* took longer than the threshold of refresh 'auto'.
get_repo_map_return(slow) ==
    /\ pc = "ret"
    /\ LET listing == IF c.best_tree.set THEN c.best_tree.v ELSE << >>
       IN  c' = [c EXCEPT !.files_listing = SomeText(listing),
                          !.ret = Returned(listing, c.chat), !.slow = slow,
                          !.num_tags = 0, !.lower_bound = 0,
                          !.upper_bound = 0, !.middle = 0,
                          !.best_tree = NoText, !.best_tree_tokens = 0]
    /\ pc' = "idle"
    /\ UNCHANGED <<options, refresh, max_map_tokens, map_mul_no_files,
                   max_context_window, repo_content_prefix, last_map,
                   map_cache, map_processing_time, tripped>>

OrchNext ==
    \/ \E chat \in ChatChoices, other \in OtherChoices,
          m \in MentionChoices, force \in BOOLEAN :
          get_repo_map(chat, other, m.fnames, m.idents, force)
    \/ \E n \in 0..MaxTags : get_ranked_tags_done(n)
    \/ \E kind \in {"range", "other"} : get_ranked_tags_throws(kind)
    \/ \E len \in LenChoices \cup {0} : fit_iteration(len)
    \/ \E kind \in {"range", "other"} : fit_throws(kind)
    \/ \E slow \in BOOLEAN : get_repo_map_return(slow)


\* ------------------------------------------------- files, tags, extraction
\* More modifications of files than this are not followed.
MaxClock == 2

\* A path as the caller passes it: the file it names, spelled absolute or
\* relative to the root (which is then the working directory).
\* get_rel_fname gives the relative spelling.
Path(f) == [file |-> f, abs |-> TRUE]
get_rel_fname(fname) == [file |-> fname.file, abs |-> FALSE]
RelPath(f) == [file |-> f, abs |-> FALSE]
PathChoices == {Path(f) : f \in Files} \cup {RelPath(f) : f \in Files}

\* A query capture: its name split at the dots, the node's text and row.
Capture(name, text, row) == [name |-> name, text |-> text, row |-> row]

\* What a file can hold: its code (empty or not) and the captures the tags
\* query yields on it.
Contents == <<
    [empty |-> FALSE,
     captures |-> <<Capture(<<"name", "definition", "function">>, "foo", 0),
                    Capture(<<"doc">>, "foo", 0),
                    Capture(<<"name", "reference", "call">>, "_bar", 2)>>],
    [empty |-> FALSE,
     captures |-> <<Capture(<<"name", "reference", "call">>, "foo", 0),
                    Capture(<<"definition", "function">>, "foo", 1)>>],
    [empty |-> FALSE,
     captures |-> <<Capture(<<"name", "reference", "call">>, "foo", 1),
                    Capture(<<"name", "definition", "method">>, "_bar", 3),
                    Capture(<<"name", "definition">>, "baz", 4),
                    Capture(<<"name", "reference", "call">>, "foo", 5)>>],
    [empty |-> TRUE, captures |-> << >>],
    [empty |-> FALSE,
     captures |-> <<Capture(<<"name", "definition", "function">>, "foo", 0),
                    Capture(<<"definition", "function">>, "function foo(){}", 0)>>],
    [empty |-> FALSE,
     captures |-> <<Capture(<<"name", "reference", "call">>, "foo", 0),
                    Capture(<<"reference", "call">>, "foo()", 0)>>],
    [empty |-> FALSE,
     captures |-> <<Capture(<<"name", "reference", "call">>, "foo", 1),
                    Capture(<<"name", "definition", "function">>, "_bar", 2)>>],
    [empty |-> FALSE,
     captures |-> <<Capture(<<"name", "definition", "function">>, "foo", 0),
                    Capture(<<"name", "definition", "function">>, "_bar", 3),
                    Capture(<<"name", "reference", "call">>, "foo", 4)>>],
    [empty |-> FALSE,
     captures |-> <<Capture(<<"name", "reference", "call">>, "_bar", 0),
                    Capture(<<"name", "reference", "call">>, "foo", 1),
                    Capture(<<"name", "definition", "function">>, "baz", 2)>>] >>

\* What can go wrong in one extraction: the parser module or the language
\* missing, the query file missing, and an exception thrown while setting
\* the parser up, reading the file, or parsing and querying it.
EnvChoices ==
    {[parser |-> TRUE, lang |-> TRUE, scm |-> TRUE, throws |-> "none"],
     [parser |-> FALSE, lang |-> TRUE, scm |-> TRUE, throws |-> "none"],
     [parser |-> TRUE, lang |-> FALSE, scm |-> TRUE, throws |-> "none"],
     [parser |-> TRUE, lang |-> TRUE, scm |-> FALSE, throws |-> "none"],
     [parser |-> TRUE, lang |-> TRUE, scm |-> TRUE, throws |-> "setup"],
     [parser |-> TRUE, lang |-> TRUE, scm |-> TRUE, throws |-> "read"],
     [parser |-> TRUE, lang |-> TRUE, scm |-> TRUE, throws |-> "parse"]}
OkEnv == [parser |-> TRUE, lang |-> TRUE, scm |-> TRUE, throws |-> "none"]

VARIABLES
    fs,          \* the file system: per file, whether stat succeeds, mtime, content
    clock,       \* the modifications made so far
    TAGS_CACHE,  \* this.TAGS_CACHE, per path an entry or none
    r,           \* the getRankedTags call in flight, or the last one returned
    rpc,         \* where that call stands
    g            \* the last getTags call that returned

tagVars == <<fs, clock, TAGS_CACHE, r, rpc, g>>

NoEntry == [has |-> FALSE, mtime |-> 0, data |-> << >>]
Entry(mtime, data) == [has |-> TRUE, mtime |-> mtime, data |-> data]

\* The prefix test without the dot that ends the prefix.
StartsWithName(name, what) ==
    Len(name) >= 2 /\ name[1] = "name" /\ name[2] = what

\* String.prototype.startsWith('name.definition.') and ('name.reference.')
\* on a capture name: the first two parts, and a dot after them.
StartsWithNameDot(name, what) ==
    Len(name) >= 3 /\ name[1] = "name" /\ name[2] = what

\* getTagsRaw, lines 259-282: the loop over the captures. acc holds the tags
\* pushed, saw the kinds seen, logs what was handed to the logger.
RECURSIVE CaptureLoop(_, _, _, _)
CaptureLoop(captures, fname, rel_fname, acc) ==
    IF captures = << >> THEN acc
    ELSE LET cap == Head(captures)
             kind == IF StartsWithNameDot(cap.name, "definition") THEN "def"
                     ELSE IF StartsWithNameDot(cap.name, "reference") THEN "ref"
                     ELSE "skip"
         IN  IF kind = "skip"
             THEN CaptureLoop(Tail(captures), fname, rel_fname, acc)
             ELSE CaptureLoop(Tail(captures), fname, rel_fname,
                    [tags |-> Append(acc.tags,
                                 [rel_fname |-> rel_fname, fname |-> fname,
                                  name |-> cap.text, kind |-> kind,
                                  line |-> cap.row + 1]),
                     saw |-> acc.saw \cup {kind},
                     logs |-> Append(acc.logs, "output")])

\* The result of a try body: a value with the logs made, or an exception.
Value(tags, logs) == [threw |-> FALSE, tags |-> tags, logs |-> logs]
Thrown(logs) == [threw |-> TRUE, tags |-> << >>, logs |-> logs]

\* getTagsRaw, lines 212-290: the body of the try. readable: the file is
\* there when it is read; content: what it holds then.
TryBody(env, fname, rel_fname, readable, content) ==
    IF env.throws = "setup" THEN Thrown(<< >>)
    ELSE IF ~env.parser THEN Value(<< >>, <<"error">>)
    ELSE IF ~env.lang THEN Value(<< >>, <<"error">>)
    ELSE IF ~env.scm THEN Value(<< >>, <<"warning">>)
    ELSE IF env.throws = "read" \/ ~readable THEN Thrown(<< >>)
    ELSE IF content.empty THEN Value(<< >>, <<"warning">>)
    ELSE IF env.throws = "parse" THEN Thrown(<< >>)
    ELSE LET done == CaptureLoop(content.captures, fname, rel_fname,
                         [tags |-> << >>, saw |-> {}, logs |-> << >>])
         IN  IF "ref" \in done.saw /\ "def" \notin done.saw
             THEN Value(<< >>, done.logs)
             ELSE Value(done.tags, done.logs)

\* getTagsRaw without its catch: an exception leaves the function.
getTagsRaw_NoCatch(env, fname, rel_fname, readable, content) ==
    TryBody(env, fname, rel_fname, readable, content)

\* getTagsRaw, lines 210-296: the catch turns an exception into [].
getTagsRaw(env, fname, rel_fname, readable, content) ==
    LET body == TryBody(env, fname, rel_fname, readable, content)
    IN  IF body.threw THEN Value(<< >>, body.logs) ELSE body

\* get_mtime with a failed stat answered by 0.
get_mtime_Zero(fname) ==
    IF fs[fname.file].exists THEN SomeInt(fs[fname.file].mtime)
    ELSE SomeInt(0)

\* get_mtime, lines 108-117: undefined when stat throws.
get_mtime(fname) ==
    IF fs[fname.file].exists THEN SomeInt(fs[fname.file].mtime) ELSE NoInt

\* The test of line 200 without the comparison of the mtimes.
CacheHit_AnyMtime(cached, file_mtime) == cached.has

\* getTags, line 200: cached && cached.mtime === file_mtime.
CacheHit(cached, file_mtime) == cached.has /\ cached.mtime = file_mtime

\* ------------------------------------------------------------- the ranker
\* Identifiers whose name starts with an underscore.
StartsWithUnderscore(name) == name \in {"_bar"}
MentionedChoices == {{}, {"foo"}}

\* Fixed point arithmetic of the PageRank below: ranks in 1/PRScale, the
\* square roots of the edge weights in 1/RootScale.
PRScale == 10000
RootScale == 100
AlphaPercent == 85
MaxIterations == 100

RECURSIVE Concat(_)
Concat(ss) == IF ss = << >> THEN << >> ELSE Head(ss) \o Concat(Tail(ss))

\* The elements of s in the order of their first occurrence (a Set or the
\* keys of a Map, which keep insertion order).
RECURSIVE Distinct(_)
Distinct(s) ==
    IF s = << >> THEN << >>
    ELSE LET rest == Distinct(SubSeq(s, 1, Len(s) - 1))
             x == s[Len(s)]
         IN  IF x \in Range(rest) THEN rest ELSE Append(rest, x)

Map(s, Op(_)) == [i \in 1..Len(s) |-> Op(s[i])]

IsDef(t) == t.kind = "def"
IsRef(t) == t.kind = "ref"

\* floor(sqrt(n)) by bisection.
RECURSIVE Bisect(_, _, _)
Bisect(n, lo, hi) ==
    IF lo >= hi THEN lo
    ELSE LET mid == (lo + hi + 1) \div 2
         IN  IF mid * mid <= n THEN Bisect(n, mid, hi)
             ELSE Bisect(n, lo, mid - 1)
ISqrt(n) == Bisect(n, 0, n)

\* The weight without the underscore rule.
EdgeWeight_NoUnderscore(ident, mentioned_idents, refs) ==
    [base2 |-> IF ident \in mentioned_idents THEN 4 ELSE 2,
     count |-> Len(refs)]

\* lines 368-369 and 380: weight * Math.sqrt(refs.length), kept exact as
\* twice the base weight and the reference count.
EdgeWeight(ident, mentioned_idents, refs) ==
    [base2 |-> IF ident \in mentioned_idents THEN 4
               ELSE IF StartsWithUnderscore(ident) THEN 1 ELSE 2,
     count |-> Len(refs)]

\* The weight as a number, in 1/(2 * RootScale).
Numeric(w) == w.base2 * ISqrt(w.count * RootScale * RootScale)

\* getRankedTags, lines 344-363: what the loop over the tags collects.
DefinedIdents(tags) == Distinct(Map(SelectSeq(tags, IsDef), LAMBDA t : t.name))
Definers(tags, ident) ==
    Distinct(Map(SelectSeq(tags, LAMBDA t : IsDef(t) /\ t.name = ident),
                 LAMBDA t : t.rel_fname))
References(tags, ident) ==
    Map(SelectSeq(tags, LAMBDA t : IsRef(t) /\ t.name = ident),
        LAMBDA t : t.rel_fname)
DefinitionKeys(tags) ==
    Distinct(Map(SelectSeq(tags, IsDef),
                 LAMBDA t : [rel_fname |-> t.rel_fname, name |-> t.name]))

\* lines 366-395: the pairs the three nested loops visit, in their order.
EdgeCandidates(tags, mentioned_idents) ==
    Concat(Map(DefinedIdents(tags), LAMBDA ident :
        LET refs == References(tags, ident)
        IN  Concat(Map(Definers(tags, ident), LAMBDA definer :
                Map(refs, LAMBDA referencer :
                    [from |-> referencer, to |-> definer, ident |-> ident,
                     weight |-> EdgeWeight(ident, mentioned_idents, refs)])))))

NoGraph == [nodes |-> << >>, edges |-> << >>]

\* lines 382-393 with every pair's edge replaced by the latest identifier's.
AddEdge_LastWins(graph, e) ==
    LET n1 == IF e.to \in Range(graph.nodes) THEN graph.nodes
              ELSE Append(graph.nodes, e.to)
        n2 == IF e.from \in Range(n1) THEN n1 ELSE Append(n1, e.from)
    IN  [nodes |-> n2,
         edges |-> Append(SelectSeq(graph.edges,
                              LAMBDA x : ~(x.from = e.from /\ x.to = e.to)), e)]

\* lines 382-393: the nodes are added, the edge only if the pair has none.
AddEdge(graph, e) ==
    LET n1 == IF e.to \in Range(graph.nodes) THEN graph.nodes
              ELSE Append(graph.nodes, e.to)
        n2 == IF e.from \in Range(n1) THEN n1 ELSE Append(n1, e.from)
        has == \E i \in 1..Len(graph.edges) :
                  graph.edges[i].from = e.from /\ graph.edges[i].to = e.to
    IN  [nodes |-> n2,
         edges |-> IF has THEN graph.edges ELSE Append(graph.edges, e)]

RECURSIVE BuildGraph(_, _)
BuildGraph(graph, cands) ==
    IF cands = << >> THEN graph
    ELSE BuildGraph(AddEdge(graph, Head(cands)), Tail(cands))

RECURSIVE SumSeq(_)
SumSeq(s) == IF s = << >> THEN 0 ELSE Head(s) + SumSeq(Tail(s))

\* The weighted out degree of a node.
OutWeight(graph, node) ==
    SumSeq(Map(SelectSeq(graph.edges, LAMBDA e : e.from = node),
               LAMBDA e : Numeric(e.weight)))

\* One power iteration of the weighted PageRank with damping 0.85: every
\* node passes its rank along its out edges in proportion to their weights,
\* the rank of the nodes without out edges is spread evenly.
PRStep(graph, x) ==
    LET N == Len(graph.nodes)
        dangle == SumSeq(Map(SelectSeq(graph.nodes,
                                 LAMBDA n : OutWeight(graph, n) = 0),
                             LAMBDA n : x[n]))
    IN  [n \in Range(graph.nodes) |->
            SumSeq(Map(SelectSeq(graph.edges, LAMBDA e : e.to = n),
                       LAMBDA e : (AlphaPercent * x[e.from] * Numeric(e.weight))
                                  \div (100 * OutWeight(graph, e.from))))
            + ((100 - AlphaPercent) * PRScale) \div (100 * N)
            + (AlphaPercent * dangle) \div (100 * N)]

RECURSIVE PRIterate(_, _, _)
PRIterate(graph, x, iteration) ==
    LET next == PRStep(graph, x)
        error == SumSeq(Map(graph.nodes, LAMBDA n : Abs(next[n] - x[n])))
    IN  IF error <= Len(graph.nodes) THEN [converged |-> TRUE, x |-> next]
        ELSE IF iteration + 1 >= MaxIterations
        THEN [converged |-> FALSE, x |-> next]
        ELSE PRIterate(graph, next, iteration + 1)

\* pagerank(graph, {alpha: 0.85, getEdgeWeight}), line 411, on a graph with
\* at least one node: the ranks, or no convergence (the library throws).
pagerank(graph) ==
    PRIterate(graph,
              [n \in Range(graph.nodes) |-> PRScale \div Len(graph.nodes)], 0)

\* lines 421-422: a stable sort of the nodes by descending rank.
RECURSIVE InsertRanked(_, _, _)
InsertRanked(n, s, x) ==
    IF s = << >> THEN <<n>>
    ELSE IF x[Head(s)] >= x[n] THEN <<Head(s)>> \o InsertRanked(n, Tail(s), x)
    ELSE <<n>> \o s

RECURSIVE SortRanked(_, _)
SortRanked(nodes, x) ==
    IF nodes = << >> THEN << >>
    ELSE InsertRanked(nodes[Len(nodes)],
                      SortRanked(SubSeq(nodes, 1, Len(nodes) - 1), x), x)

\* lines 424-432: per ranked file that chat_fnames does not include, the
\* definition tags of its keys, in the order the keys were inserted.
RankedTags(rankedNodes, chat_fnames, tags) ==
    Concat(Map(SelectSeq(rankedNodes, LAMBDA n : n \notin Range(chat_fnames)),
        LAMBDA n :
            Concat(Map(SelectSeq(DefinitionKeys(tags),
                                 LAMBDA k : k.rel_fname = n),
                LAMBDA k : SelectSeq(tags, LAMBDA t :
                    IsDef(t) /\ t.rel_fname = k.rel_fname
                             /\ t.name = k.name)))))

\* --------------------------------------------- getRankedTags and getTags
RankChatChoices == {<< >>, <<Path(1)>>, <<RelPath(1)>>}
RankOtherChoices == {<< >>, <<Path(1)>>, <<Path(2)>>, <<Path(1), Path(2)>>}

NoRank == [valid |-> FALSE, chat_fnames |-> << >>, other_fnames |-> << >>,
           fnames |-> << >>, statOk |-> TRUE,
           mentioned_idents |-> {}, i |-> 0,
           file_mtime |-> 0, data |-> << >>, logs |-> << >>,
           env |-> OkEnv, readable |-> TRUE, content |-> 1,
           before |-> NoEntry,
           tags |-> << >>, graphBuilt |-> FALSE, graph |-> NoGraph,
           pageranked |-> FALSE, threw |-> FALSE, result |-> << >>,
           aliased |-> FALSE]

NoGet == [valid |-> FALSE, fname |-> Path(1), statOk |-> TRUE,
          mtime |-> NoInt, hit |-> FALSE,
          extracted |-> FALSE, env |-> OkEnv, readable |-> TRUE, content |-> 1,
          threw |-> FALSE, logs |-> << >>, ret |-> << >>,
          before |-> NoEntry]

\* Every file is there, written once with one of the contents given, when
\* the instance is constructed.
TagInit(contents) ==
    /\ fs \in [Files -> [exists : {TRUE}, mtime : {0}, content : contents]]
    /\ clock = 0
    /\ TAGS_CACHE = [p \in PathChoices |-> NoEntry]
    /\ r = NoRank
    /\ rpc = "idle"
    /\ g = NoGet

\* A file is written: new content, and a modification time not seen before.
Modify(f, content) ==
    /\ clock < MaxClock
    /\ clock' = clock + 1
    /\ fs' = [fs EXCEPT ![f] = [exists |-> TRUE, mtime |-> clock + 1,
                                content |-> content]]
    /\ UNCHANGED <<TAGS_CACHE, r, rpc, g>>

\* A file is removed: stat fails from now on.
Remove(f) ==
    /\ fs[f].exists
    /\ fs' = [fs EXCEPT ![f].exists = FALSE]
    /\ UNCHANGED <<clock, TAGS_CACHE, r, rpc, g>>

\* The single-file shortcut returning the definitions only.
SingleFileResult_DefsOnly(tags) == SelectSeq(tags, IsDef)

\* getRankedTags, lines 323-328: the single file's tags, as getTags gave them.
SingleFileResult(tags) == tags

\* getRankedTags, lines 365-457, once every file's tags are in: the graph,
\* PageRank and the ranked definition tags. lib: what the library does on
\* a graph without nodes.
Ranked(rr, lib) ==
    LET tags == Concat(rr.tags)
        graph == BuildGraph(NoGraph,
                            EdgeCandidates(tags, rr.mentioned_idents))
        pr == IF graph.nodes = << >>
              THEN [converged |-> lib = "returns", x |-> << >>]
              ELSE pagerank(graph)
    IN  [rr EXCEPT !.graphBuilt = TRUE, !.graph = graph,
                   !.pageranked = TRUE, !.threw = ~pr.converged,
                   !.result = IF pr.converged
                              THEN RankedTags(SortRanked(graph.nodes, pr.x),
                                              rr.chat_fnames, tags)
                              ELSE << >>]

\* A ranker that builds the graph and ranks as soon as any file's tags are
\* in.
Resumed_RanksEarly(rr, tags, lib) ==
    IF Len(rr.fnames) = 1
    THEN [r |-> [rr EXCEPT !.result = SingleFileResult(tags)], pc |-> "idle"]
    ELSE LET got == [rr EXCEPT !.tags = Append(rr.tags, tags)]
         IN  IF rr.i < Len(rr.fnames)
             THEN [r |-> [Ranked(got, lib) EXCEPT !.i = rr.i + 1],
                   pc |-> "stat"]
             ELSE [r |-> Ranked(got, lib), pc |-> "idle"]

\* getRankedTags resumes with the tags getTags returned for file i.
Resumed(rr, tags, lib) ==
    IF Len(rr.fnames) = 1
    THEN [r |-> [rr EXCEPT !.result = SingleFileResult(tags)], pc |-> "idle"]
    ELSE LET got == [rr EXCEPT !.tags = Append(rr.tags, tags)]
         IN  IF rr.i < Len(rr.fnames)
             THEN [r |-> [got EXCEPT !.i = rr.i + 1], pc |-> "stat"]
             ELSE [r |-> Ranked(got, lib), pc |-> "idle"]

\* An empty graph is the only one the library's answer is open for.
LibMatters(rr, tags) ==
    /\ Len(rr.fnames) # 1
    /\ rr.i >= Len(rr.fnames)
    /\ EdgeCandidates(Concat(Append(rr.tags, tags)), rr.mentioned_idents) = << >>

\* getRankedTags, lines 297-343, up to its first getTags.
getRankedTags(chat_fnames, other_fnames, mentioned_idents, lib) ==
    /\ rpc = "idle"
    /\ LET fnames == Distinct(chat_fnames \o other_fnames)
           rr == [NoRank EXCEPT !.valid = TRUE, !.chat_fnames = chat_fnames,
                                !.other_fnames = other_fnames,
                                !.fnames = fnames,
                                !.mentioned_idents = mentioned_idents,
                                !.i = 1]
       IN  IF fnames = << >>
           THEN /\ r' = Ranked([rr EXCEPT !.i = 0], lib)
                /\ rpc' = "idle"
           ELSE /\ lib = "returns"
                /\ r' = rr
                /\ rpc' = "stat"
    /\ UNCHANGED <<fs, clock, TAGS_CACHE, g>>

\* getTags, lines 192-202: stat, then the cache. aliased: the array
\* returned is the one the cache entry holds.
getTags_stat(lib) ==
    /\ rpc = "stat"
    /\ LET fname == r.fnames[r.i]
           file_mtime == get_mtime(fname)
           cached == TAGS_CACHE[fname]
           rec == [NoGet EXCEPT !.valid = TRUE, !.fname = fname,
                                !.statOk = fs[fname.file].exists,
                                !.mtime = file_mtime, !.before = cached]
       IN  IF ~file_mtime.set
           THEN /\ (lib = "throws" => LibMatters(r, << >>))
                /\ g' = rec
                /\ r' = Resumed([r EXCEPT !.aliased = FALSE], << >>, lib).r
                /\ rpc' = Resumed(r, << >>, lib).pc
           ELSE IF CacheHit(cached, file_mtime.v)
           THEN /\ (lib = "throws" => LibMatters(r, cached.data))
                /\ g' = [rec EXCEPT !.hit = TRUE, !.ret = cached.data]
                /\ r' = Resumed([r EXCEPT !.aliased = TRUE],
                                cached.data, lib).r
                /\ rpc' = Resumed(r, cached.data, lib).pc
           ELSE /\ lib = "returns"
                /\ g' = g
                /\ r' = [r EXCEPT !.file_mtime = file_mtime.v,
                                  !.statOk = fs[fname.file].exists,
                                  !.before = cached]
                /\ rpc' = "extract"
    /\ UNCHANGED <<fs, clock, TAGS_CACHE>>

\* getTags, line 204: getTagsRaw runs to its end, then getTags is suspended.
getTags_extract(env) ==
    /\ rpc = "extract"
    /\ LET fname == r.fnames[r.i]
           file == fs[fname.file]
           out == getTagsRaw(env, fname, get_rel_fname(fname), file.exists,
                             Contents[file.content])
       IN  IF out.threw
           THEN /\ r' = [r EXCEPT !.threw = TRUE]
                /\ g' = [NoGet EXCEPT !.valid = TRUE, !.fname = fname,
                            !.statOk = r.statOk,
                            !.mtime = SomeInt(r.file_mtime),
                            !.extracted = TRUE, !.env = env,
                            !.readable = file.exists,
                            !.content = file.content, !.threw = TRUE,
                            !.logs = out.logs, !.before = r.before]
                /\ rpc' = "idle"
           ELSE /\ r' = [r EXCEPT !.data = out.tags, !.logs = out.logs,
                                  !.env = env, !.readable = file.exists,
                                  !.content = file.content]
                /\ g' = g
                /\ rpc' = "set"
    /\ UNCHANGED <<fs, clock, TAGS_CACHE>>

\* getTags, lines 205-206: the entry is written and the data returned.
getTags_set(lib) ==
    /\ rpc = "set"
    /\ (lib = "throws" => LibMatters(r, r.data))
    /\ LET fname == r.fnames[r.i]
           cleared == [r EXCEPT !.file_mtime = 0, !.statOk = TRUE,
                                !.data = << >>,
                                !.logs = << >>, !.env = OkEnv,
                                !.readable = TRUE, !.content = 1,
                                !.before = NoEntry, !.aliased = TRUE]
       IN  /\ TAGS_CACHE' = [TAGS_CACHE EXCEPT
                                ![fname] = Entry(r.file_mtime, r.data)]
           /\ g' = [NoGet EXCEPT !.valid = TRUE, !.fname = fname,
                                 !.statOk = r.statOk,
                                 !.mtime = SomeInt(r.file_mtime),
                                 !.extracted = TRUE, !.env = r.env,
                                 !.readable = r.readable,
                                 !.content = r.content, !.logs = r.logs,
                                 !.ret = r.data, !.before = r.before]
           /\ r' = Resumed(cleared, r.data, lib).r
           /\ rpc' = Resumed(cleared, r.data, lib).pc
    /\ UNCHANGED <<fs, clock>>

LibChoices == {"returns", "throws"}

\* The calls of getRankedTags, with inputs from the sets given, and the
\* steps of its getTags calls, in the environments given.
RankNext(chats, others, mentions, envs) ==
    \/ \E chat \in chats, other \in others, m \in mentions,
          lib \in LibChoices :
          getRankedTags(chat, other, m, lib)
    \/ \E lib \in LibChoices : getTags_stat(lib)
    \/ \E env \in envs : getTags_extract(env)
    \/ \E lib \in LibChoices : getTags_set(lib)

\* The file system changes under the calls.
FsNext(contents) ==
    \/ \E f \in Files, content \in contents : Modify(f, content)
    \/ \E f \in Files : Remove(f)

\* --------------------------------------------- the fitter and the tree text
\* Most ranked tags of a fitting over synthetic tags.
MaxFit == 5

\* The files filterImportantFiles keeps (lines 774-781): their lower-cased
\* path contains 'readme', 'tsconfig.json' or 'package.json'.
ImportantFiles == {2}
filterImportantFiles(fnames) ==
    SelectSeq(fnames, LAMBDA fn : fn.file \in ImportantFiles)

\* null, as a path.
Null == [file |-> 0, abs |-> FALSE]

\* { rel_fname: fn } as Tag (line 561): a tag without a line.
SpecialTag(fn) ==
    [rel_fname |-> fn, fname |-> Null, name |-> "", kind |-> "special",
     line |-> 0]
\* 'line' in tag
HasLine(tag) == tag.kind # "special"

\* to_tree's dummy tag (lines 653-659).
dummy_tag ==
    [rel_fname |-> Null, fname |-> Null, name |-> "", kind |-> "", line |-> 0]

\* The paths of a set in ascending order.
RECURSIVE Ascending(_)
Ascending(S) ==
    IF S = {} THEN << >>
    ELSE LET x == CHOOSE y \in S : \A z \in S : y.file <= z.file
         IN  <<x>> \o Ascending(S \ {x})

\* chat_fnames compared as the caller passed them.
ChatRel_AsPassed(chat_fnames) == Range(chat_fnames)

\* lines 573-575: the chat files by their paths relative to the root.
ChatRel(chat_fnames) == {get_rel_fname(fname) : fname \in Range(chat_fnames)}

\* lines 553-563: the important files among other_fnames that no ranked tag
\* belongs to, as tags without a line, in ascending order of their paths.
AdditionalSpecial(other_fnames, ranked_tags) ==
    LET other_rel_fnames ==
            Ascending({get_rel_fname(fname) : fname \in Range(other_fnames)})
        ranked_tags_fnames == {t.rel_fname : t \in Range(ranked_tags)}
    IN  Map(SelectSeq(filterImportantFiles(other_rel_fnames),
                      LAMBDA fn : fn \notin ranked_tags_fnames),
            SpecialTag)

\* A tree text is '' or ends with a line break; in between it holds, per
\* file, a header line alone or a header line with an excerpt of the file.
EmptyText == [nl |-> FALSE, blocks |-> << >>]
Header(cur_fname) ==
    [kind |-> "header", fname |-> cur_fname, abs |-> Null, lois |-> {}]
Excerpt(cur_fname, cur_abs_fname, lois) ==
    [kind |-> "excerpt", fname |-> cur_fname, abs |-> cur_abs_fname,
     lois |-> Range(lois)]

\* to_tree, lines 668-705: the loop over the tags.
RECURSIVE ToTreeLoop(_, _, _)
ToTreeLoop(tags, chat_rel_fnames, st) ==
    IF tags = << >> THEN st
    ELSE LET tag == Head(tags)
             changed == tag.rel_fname # st.cur_fname
             flushed ==
                 IF ~changed THEN st
                 ELSE IF st.lois.set /\ st.cur_fname # Null
                         /\ st.cur_abs_fname # Null
                 THEN [st EXCEPT
                         !.output = Append(@, Excerpt(st.cur_fname,
                                                st.cur_abs_fname, st.lois.v)),
                         !.lois = NoList]
                 ELSE IF st.cur_fname # Null
                 THEN [st EXCEPT !.output = Append(@, Header(st.cur_fname))]
                 ELSE st
             inited ==
                 IF ~changed THEN flushed
                 ELSE IF tag.rel_fname # Null /\ HasLine(tag)
                 THEN [flushed EXCEPT !.lois = SomeList(<< >>),
                                      !.cur_abs_fname = tag.fname,
                                      !.cur_fname = tag.rel_fname]
                 ELSE [flushed EXCEPT !.cur_fname = tag.rel_fname]
             pushed ==
                 IF inited.lois.set /\ HasLine(tag)
                 THEN [inited EXCEPT !.lois = SomeList(Append(@.v, tag.line))]
                 ELSE inited
         IN  IF tag.rel_fname \in chat_rel_fnames
             THEN ToTreeLoop(Tail(tags), chat_rel_fnames, st)
             ELSE ToTreeLoop(Tail(tags), chat_rel_fnames, pushed)

\* to_tree, lines 639-725.
to_tree(tags, chat_rel_fnames) ==
    IF tags = << >> THEN EmptyText
    ELSE LET isSingleFile ==
                 Cardinality({t.rel_fname : t \in Range(tags)}) = 1
             tagsToProcess ==
                 IF isSingleFile THEN tags ELSE Append(tags, dummy_tag)
             st == ToTreeLoop(tagsToProcess, chat_rel_fnames,
                      [cur_fname |-> Null, cur_abs_fname |-> Null,
                       lois |-> NoList, output |-> << >>])
         IN  [nl |-> TRUE,
              blocks |->
                 IF isSingleFile /\ st.cur_fname # Null
                    /\ st.cur_abs_fname # Null /\ st.lois.set
                 THEN Append(st.output, Excerpt(st.cur_fname,
                                           st.cur_abs_fname, st.lois.v))
                 ELSE st.output]

\* The lengths a tree text can have: 0 for '', 1 for a line break alone,
\* more with a block.
TextLen(tree, len) ==
    IF tree = EmptyText THEN len = 0
    ELSE IF tree.blocks = << >> THEN len = 1
    ELSE len > 1

NoTree == [set |-> FALSE, v |-> EmptyText]
SomeTree(t) == [set |-> TRUE, v |-> t]

VARIABLES
    mc,    \* the get_ranked_tags_map_uncached call in flight, or the last one
    mpc   \* where that call stands

mapVars == <<mc, mpc>>

\* est: the length of the text of every prefix, when it is given beforehand.
NoMapCall ==
    [valid |-> FALSE, chat_fnames |-> << >>, other_fnames |-> << >>,
     max_map_tokens |-> 0, ranked_tags |-> << >>, est |-> << >>,
     num_tags |-> 0, lower_bound |-> 0, upper_bound |-> 0, middle |-> 0,
     best_tree |-> NoTree, best_tree_tokens |-> 0,
     before |-> [lower_bound |-> 0, upper_bound |-> 0],
     iterations |-> 0, rendered |-> {}, within |-> FALSE, met |-> FALSE,
     threw |-> FALSE, done |-> FALSE, ret |-> EmptyText, ret_tokens |-> 0]

\* lines 539-541: the budget, or the default when none is given.
MapBudget(tokens) ==
    IF ~tokens.set \/ tokens.v <= 0
    THEN OrDefault(SomeInt(max_map_tokens), DefaultMapTokens)
    ELSE tokens.v

\* lines 567-583: the search starts over the ranked tags.
Fitting(call, ranked_tags) ==
    [call EXCEPT !.ranked_tags = ranked_tags,
                 !.num_tags = Len(ranked_tags),
                 !.lower_bound = 0, !.upper_bound = Len(ranked_tags),
                 !.best_tree = NoTree, !.best_tree_tokens = 0,
                 !.middle = Min(call.max_map_tokens \div TokensPerTag,
                                Len(ranked_tags))]

\* The bounds moved onto the prefix rendered.
NextBounds_NoStep(lower_bound, upper_bound, middle, under) ==
    IF under THEN [lower_bound |-> middle, upper_bound |-> upper_bound]
    ELSE [lower_bound |-> lower_bound, upper_bound |-> middle]

\* The upper bound moved two below the prefix rendered.
NextBounds_SkipsOne(lower_bound, upper_bound, middle, under) ==
    IF under THEN [lower_bound |-> middle + 1, upper_bound |-> upper_bound]
    ELSE [lower_bound |-> lower_bound, upper_bound |-> middle - 2]

\* lines 620-627: search higher when under budget, lower otherwise.
NextBounds(lower_bound, upper_bound, middle, under) ==
    IF under THEN [lower_bound |-> middle + 1, upper_bound |-> upper_bound]
    ELSE [lower_bound |-> lower_bound, upper_bound |-> middle - 1]

\* line 603: pct_err < ok_err, for a positive budget; both in quarter tokens.
WithinErr(num_tokens, max4) ==
    100 * Abs(num_tokens - max4) < OkErrPercent * max4

\* Any text larger than the best so far is taken.
IsBestFit_NoBudget(num_tokens, max4, best_tree_tokens) ==
    num_tokens > best_tree_tokens \/ WithinErr(num_tokens, max4)

\* line 609: the test for a new best tree.
IsBestFit(num_tokens, max4, best_tree_tokens) ==
    (num_tokens <= max4 /\ num_tokens > best_tree_tokens)
    \/ WithinErr(num_tokens, max4)

\* get_ranked_tags_map_uncached, lines 531-549: the budget, and
\* getRankedTags up to its first getTags.
map_start(chat_fnames, other_fnames, tokens, mentioned_idents, lib) ==
    /\ mpc = "idle"
    /\ getRankedTags(chat_fnames, other_fnames, mentioned_idents, lib)
    /\ mc' = [NoMapCall EXCEPT !.valid = TRUE, !.chat_fnames = chat_fnames,
                              !.other_fnames = other_fnames,
                              !.max_map_tokens = MapBudget(tokens)]
    /\ mpc' = "rank"

\* lines 544-583: getRankedTags has returned or thrown. The special files
\* are put in front of the array it returned, which for a single file is
\* the array the tag cache holds.
map_ranked ==
    /\ mpc = "rank" /\ rpc = "idle"
    /\ IF r.threw
       THEN /\ mc' = [mc EXCEPT !.threw = TRUE, !.done = TRUE]
            /\ mpc' = "idle"
            /\ UNCHANGED TAGS_CACHE
       ELSE LET additional_special ==
                    AdditionalSpecial(mc.other_fnames, r.result)
                ranked_tags == additional_special \o r.result
            IN  /\ mc' = Fitting(mc, ranked_tags)
                /\ mpc' = "fit"
                /\ TAGS_CACHE' =
                      IF Len(r.fnames) = 1 /\ r.aliased
                      THEN [TAGS_CACHE EXCEPT
                              ![r.fnames[1]].data = ranked_tags]
                      ELSE TAGS_CACHE
    /\ UNCHANGED <<fs, clock, r, rpc, g>>

\* One iteration of the search, lines 585-633; len is the length of the
\* text to_tree gives for the first middle tags.
map_fit(len) ==
    /\ mpc = "fit"
    /\ mc.lower_bound <= mc.upper_bound
    /\ LET tree == to_tree(SubSeq(mc.ranked_tags, 1, mc.middle),
                           ChatRel(mc.chat_fnames))
           num_tokens == token_count(len)
           max4 == 4 * mc.max_map_tokens
           within == WithinErr(num_tokens, max4)
           accept == IsBestFit(num_tokens, max4, mc.best_tree_tokens)
           nb == NextBounds(mc.lower_bound, mc.upper_bound, mc.middle,
                            num_tokens < max4)
           seen == [mc EXCEPT
                      !.best_tree = IF accept THEN SomeTree(tree) ELSE @,
                      !.best_tree_tokens = IF accept THEN num_tokens ELSE @,
                      !.before = [lower_bound |-> mc.lower_bound,
                                  upper_bound |-> mc.upper_bound],
                      !.iterations = @ + 1,
                      !.rendered = @ \cup {mc.middle},
                      !.met = @ \/ within]
       IN  /\ TextLen(tree, len)
           /\ IF within
              THEN /\ mc' = [seen EXCEPT !.within = TRUE]
                   /\ mpc' = "ret"
              ELSE /\ mc' = [seen EXCEPT
                              !.lower_bound = nb.lower_bound,
                              !.upper_bound = nb.upper_bound,
                              !.middle = (nb.lower_bound + nb.upper_bound)
                                            \div 2]
                   /\ mpc' = IF nb.lower_bound <= nb.upper_bound
                             THEN "fit" ELSE "ret"
    /\ UNCHANGED tagVars

\* line 636: return best_tree || ''.
map_return ==
    /\ mpc = "ret"
    /\ mc' = [mc EXCEPT !.done = TRUE,
                      !.ret = IF mc.best_tree.set THEN mc.best_tree.v
                              ELSE EmptyText,
                      !.ret_tokens = IF mc.best_tree.set
                                     THEN mc.best_tree_tokens ELSE 0]
    /\ mpc' = "idle"
    /\ UNCHANGED tagVars

\* --------------------------------------------------- the TreeContext class
\* The number of lines of the rendered file.
NumFileLines == 100

\* The options of the constructor when none is passed (lines 846-858), and
\* the ones render_tree passes (lines 745-754).
TreeContextDefaults ==
    [parentContext |-> TRUE, childContext |-> TRUE, lastLine |-> TRUE,
     margin |-> 3, markLois |-> TRUE, headerMax |-> 10,
     showTopOfFileParentScope |-> TRUE, loiPad |-> 1]
RenderTreeOptions ==
    [TreeContextDefaults EXCEPT !.childContext = FALSE, !.lastLine = FALSE,
                                !.margin = 0, !.markLois = FALSE,
                                !.loiPad = 0,
                                !.showTopOfFileParentScope = FALSE]

MaxOf(S) == CHOOSE x \in S : \A y \in S : y <= x

\* The numbers of a set in ascending order.
RECURSIVE SortedLines(_)
SortedLines(S) ==
    IF S = {} THEN << >>
    ELSE LET x == CHOOSE y \in S : \A z \in S : y <= z
         IN <<x>> \o SortedLines(S \ {x})

\* A syntax node: its first and last row, and its parent's position in the
\* preorder listing of the tree (0 for the root).
Node(startRow, endRow, parent) ==
    [startRow |-> startRow, endRow |-> endRow, parent |-> parent]

\* The rows of the nodes around row 50: the scopes that enclose it, outermost
\* first, and the node that starts on it, followed by its children.
EnclosingChoices ==
    {<< >>, <<<<10, 90>>>>, <<<<40, 60>>>>, <<<<10, 90>>, <<44, 59>>>>}
AtChoices ==
    {<< >>, <<<<50, 50>>>>, <<<<50, 53>>>>, <<<<48, 50>>>>,
     <<<<50, 58>>, <<51, 51>>, <<52, 57>>>>}
BlankChoices == (SUBSET {3, 48, 52, 54}) \cup {{11}, {99}, {11, 99}}

\* The parse tree in preorder: the root spans the file.
MkTree(last, enc, at) ==
    <<Node(0, last, 0)>>
    \o [i \in 1..Len(enc) |-> Node(enc[i][1], enc[i][2], i)]
    \o [j \in 1..Len(at) |->
           Node(at[j][1], at[j][2],
                IF j = 1 THEN Len(enc) + 1 ELSE Len(enc) + 2)]

\* code.split('\n'): a text that ends with a newline has an empty last
\* element.
MkCode(newline, blank, enc, at) ==
    LET n == IF newline THEN NumFileLines + 1 ELSE NumFileLines IN
    [nlines |-> n,
     blank |-> blank \cup (IF newline THEN {n - 1} ELSE {}),
     tree |-> MkTree(n - 1, enc, at)]

VARIABLES
    tc,     \* the TreeContext object
    tpc     \* how far its rendering is: "new", "built", "loi", "context", "done"
ctxVars == <<tc, tpc>>

NoContext ==
    [options |-> TreeContextDefaults, nlines |-> 0, blank |-> {},
     tree |-> << >>, numLines |-> 0, shared |-> << >>,
     nodes |-> << >>, scopes |-> << >>, header |-> << >>,
     lines_of_interest |-> {}, showLines |-> {}, doneParentScopes |-> {},
     output |-> << >>]

\* walkTree, on the k-th node of the preorder and the ones after it.  Every
\* entry of this.header is the one array the constructor filled it with, so
\* every push lands in that array (shared).
RECURSIVE walkTree(_, _, _)
walkTree(tree, k, st) ==
    IF k > Len(tree) THEN st
    ELSE
      LET startLine == tree[k].startRow
          endLine == tree[k].endRow
          size == endLine - startLine
      IN walkTree(tree, k + 1,
           [nodes |-> [st.nodes EXCEPT ![startLine] = Append(@, k)],
            shared |-> IF size # 0
                       THEN st.shared \o <<size, startLine, endLine>>
                       ELSE st.shared,
            scopes |-> [i \in DOMAIN st.scopes |->
                          IF startLine <= i /\ i <= endLine
                          THEN st.scopes[i] \cup {startLine}
                          ELSE st.scopes[i]]])

\* Number(x) || d
NumberOr(x, d) == IF x = 0 THEN d ELSE x

\* A header that is the scope's own first line.
processHeaders_OwnLine(shared, numLines, headerMax) ==
    [i \in 0..(numLines - 1) |-> <<i, i + 1>>]

\* processHeaders: headerData is the shared array for every i.
processHeaders(shared, numLines, headerMax) ==
    [i \in 0..(numLines - 1) |->
       LET headerData == shared IN
       IF Len(headerData) > 1
       THEN LET size == NumberOr(headerData[1], 0)
                headStart == NumberOr(headerData[2], i)
                headEnd == IF size > headerMax THEN headStart + headerMax
                           ELSE headStart + size
            IN <<headStart, headEnd>>
       ELSE <<i, i + 1>>]

getLastLineOfScope(t, line) ==
    MaxOf({t.tree[t.nodes[line][j]].endRow : j \in 1..Len(t.nodes[line])})

\* addParentScopes(i), on st = the shown lines and the done set; ScopesLoop
\* is its loop over this.scopes[i].
RECURSIVE addParentScopes(_, _, _)
RECURSIVE ScopesLoop(_, _, _)
addParentScopes(t, i, st) ==
    IF i \in st.doneParentScopes THEN st
    ELSE
      LET st1 == [st EXCEPT !.doneParentScopes = @ \cup {i}] IN
      IF i >= t.numLines THEN st1
      ELSE ScopesLoop(t, SortedLines(t.scopes[i]), st1)
ScopesLoop(t, todo, st) ==
    IF todo = << >> THEN st
    ELSE
      LET lineNum == Head(todo)
          headStart == t.header[lineNum][1]
          headEnd == t.header[lineNum][2]
          st1 == IF headStart > 0 \/ t.options.showTopOfFileParentScope
                 THEN [st EXCEPT !.showLines = @ \cup headStart..(headEnd - 1)]
                 ELSE st
          st2 == IF t.options.lastLine
                 THEN addParentScopes(t, getLastLineOfScope(t, lineNum), st1)
                 ELSE st1
      IN ScopesLoop(t, Tail(todo), st2)

\* The children of the k-th node, in order.
Children(tree, k) ==
    SelectSeq([j \in 1..Len(tree) |-> j], LAMBDA j : tree[j].parent = k)

RECURSIVE findAllChildren(_, _)
findAllChildren(tree, ns) ==
    IF ns = << >> THEN << >>
    ELSE <<Head(ns)>> \o findAllChildren(tree, Children(tree, Head(ns)))
         \o findAllChildren(tree, Tail(ns))

NodeSize(tree, k) == tree[k].endRow - tree[k].startRow

\* The sort of addChildContext: larger nodes first, equal ones in order.
RECURSIVE InsertChild(_, _, _)
InsertChild(tree, k, s) ==
    IF s = << >> THEN <<k>>
    ELSE IF NodeSize(tree, Head(s)) >= NodeSize(tree, k)
         THEN <<Head(s)>> \o InsertChild(tree, k, Tail(s))
         ELSE <<k>> \o s
RECURSIVE SortChildren(_, _)
SortChildren(tree, s) ==
    IF s = << >> THEN << >>
    ELSE InsertChild(tree, s[Len(s)],
                     SortChildren(tree, SubSeq(s, 1, Len(s) - 1)))

\* The loop of addChildContext; maxToShow is kept in tenths of a line.
RECURSIVE ChildLoop(_, _, _, _, _)
ChildLoop(t, children, limit10, currentlyShowing, st) ==
    IF children = << >> THEN st
    ELSE IF 10 * Cardinality(st.showLines) > 10 * currentlyShowing + limit10
         THEN st
    ELSE ChildLoop(t, Tail(children), limit10, currentlyShowing,
                   addParentScopes(t, t.tree[Head(children)].startRow, st))

addChildContext(t, line, st) ==
    IF t.nodes[line] = << >> THEN st
    ELSE
      LET lastLine == getLastLineOfScope(t, line)
          size == lastLine - line
          maxToShow10 == IF Min(size, 250) > 50 THEN Min(size, 250) ELSE 50
      IN IF size < 5
         THEN [st EXCEPT !.showLines = @ \cup line..lastLine]
         ELSE ChildLoop(t, SortChildren(t.tree,
                                        findAllChildren(t.tree, t.nodes[line])),
                        maxToShow10, Cardinality(st.showLines), st)

RECURSIVE ParentLoop(_, _, _)
ParentLoop(t, lois, st) ==
    IF lois = << >> THEN st
    ELSE ParentLoop(t, Tail(lois), addParentScopes(t, Head(lois), st))
RECURSIVE ChildContextLoop(_, _, _)
ChildContextLoop(t, lois, st) ==
    IF lois = << >> THEN st
    ELSE ChildContextLoop(t, Tail(lois), addChildContext(t, Head(lois), st))

closeSmallGaps(t, showLines) ==
    LET closedShow == showLines \cup
            {i + 1 : i \in {j \in showLines : j + 2 \in showLines}}
    IN closedShow \cup
       {i + 1 : i \in {j \in closedShow \cap 0..(t.nlines - 1) :
                         /\ j \notin t.blank
                         /\ j < t.nlines - 2
                         /\ (j + 1) \in t.blank}}

\* What add_context leaves in showLines and doneParentScopes.
AddContext(t) ==
    LET lois == SortedLines(t.lines_of_interest)
        st0 == [showLines |-> t.lines_of_interest,
                doneParentScopes |-> t.doneParentScopes]
        st1 == IF t.options.loiPad # 0
               THEN [st0 EXCEPT !.showLines = @ \cup
                       {i \in 0..(t.numLines - 1) :
                          \E line \in t.lines_of_interest :
                             /\ line - t.options.loiPad <= i
                             /\ i <= line + t.options.loiPad}]
               ELSE st0
        bottomLine == t.numLines - 2
        st2 == IF t.options.lastLine
               THEN addParentScopes(t, bottomLine,
                       [st1 EXCEPT !.showLines = @ \cup {bottomLine}])
               ELSE st1
        st3 == IF t.options.parentContext THEN ParentLoop(t, lois, st2)
               ELSE st2
        st4 == IF t.options.childContext THEN ChildContextLoop(t, lois, st3)
               ELSE st3
        st5 == [st4 EXCEPT !.showLines = @ \cup 0..(t.options.margin - 1)]
    IN [st5 EXCEPT !.showLines = closeSmallGaps(t, @)]

Dots == [k |-> "dots", i |-> 0, spacer |-> ""]
ShownLine(i, spacer) == [k |-> "line", i |-> i, spacer |-> spacer]

\* The loop of format.  When it reaches line i, dots holds what the line
\* before left in it: true after a shown line, false after a hidden one
\* (which either found it false or printed the marker and cleared it); at
\* line 0 it is the initial value.  FormatLoop is what the lines lo..hi append
\* to the output.
DotsAt(t, i) == IF i = 0 THEN 0 \notin t.showLines ELSE (i - 1) \in t.showLines
FormatLine(t, i) ==
    IF i \notin t.showLines
    THEN (IF DotsAt(t, i) THEN <<Dots>> ELSE << >>)
    ELSE <<ShownLine(i, IF i \in t.lines_of_interest /\ t.options.markLois
                        THEN "block" ELSE "bar")>>
RECURSIVE FormatLoop(_, _, _)
FormatLoop(t, lo, hi) ==
    IF lo > hi THEN << >>
    ELSE IF lo = hi THEN FormatLine(t, lo)
    ELSE FormatLoop(t, lo, (lo + hi) \div 2)
         \o FormatLoop(t, (lo + hi) \div 2 + 1, hi)

\* The constructor, lines 841-892.
NewContext(opts, code) ==
    LET numLines == code.nlines + 1
        walked == walkTree(code.tree, 1,
                     [nodes |-> [i \in 0..(numLines - 1) |-> << >>],
                      shared |-> <<0, 0>>,
                      scopes |-> [i \in 0..(numLines - 1) |-> {}]])
    IN [NoContext EXCEPT
          !.options = opts, !.nlines = code.nlines,
          !.blank = code.blank, !.tree = code.tree,
          !.numLines = numLines, !.shared = walked.shared,
          !.nodes = walked.nodes, !.scopes = walked.scopes,
          !.header = processHeaders(walked.shared, numLines, opts.headerMax)]

\* new TreeContext(filename, code, options)
TreeContext(opts, code) ==
    /\ tpc = "new"
    /\ tc' = NewContext(opts, code)
    /\ tpc' = "built"

add_lines_of_interest(lineNums) ==
    /\ tpc = "built"
    /\ tc' = [tc EXCEPT !.lines_of_interest = @ \cup lineNums]
    /\ tpc' = "loi"

add_context ==
    /\ tpc = "loi"
    /\ tc' = IF tc.lines_of_interest = {} THEN tc
             ELSE [tc EXCEPT
                     !.showLines = AddContext(tc).showLines,
                     !.doneParentScopes = AddContext(tc).doneParentScopes]
    /\ tpc' = "context"

format ==
    /\ tpc = "context"
    /\ tc' = [tc EXCEPT !.output =
                IF tc.showLines = {} THEN << >>
                ELSE FormatLoop(tc, 0, tc.nlines - 1)]
    /\ tpc' = "done"

\* ----------------------------------------------------------- render_tree
\* The decimal digits of a number, and the order of the default
\* Array.prototype.sort, which compares the elements as strings.
RECURSIVE Digits(_)
Digits(n) == IF n < 10 THEN <<n>> ELSE Append(Digits(n \div 10), n % 10)
RECURSIVE StringLE(_, _)
StringLE(s, t) ==
    IF s = << >> THEN TRUE
    ELSE IF t = << >> THEN FALSE
    ELSE IF Head(s) # Head(t) THEN Head(s) < Head(t)
    ELSE StringLE(Tail(s), Tail(t))
RECURSIVE InsertLoi(_, _)
InsertLoi(x, s) ==
    IF s = << >> THEN <<x>>
    ELSE IF StringLE(Digits(Head(s)), Digits(x))
         THEN <<Head(s)>> \o InsertLoi(x, Tail(s))
         ELSE <<x>> \o s
RECURSIVE SortLois(_)
SortLois(lois) ==
    IF lois = << >> THEN << >>
    ELSE InsertLoi(lois[Len(lois)], SortLois(SubSeq(lois, 1, Len(lois) - 1)))

\* The text of a file by its content: the content that defines foo on its
\* first row holds a function of five lines with a call inside, the others
\* a class from the second line on with a method inside.
CodeOf(content) ==
    IF content = 1 THEN MkCode(TRUE, {5}, <<<<0, 4>>>>, <<<<2, 2>>>>)
    ELSE MkCode(TRUE, {7}, <<<<1, 20>>>>, <<<<3, 4>>>>)
\* '' with the line break render_tree appends: two empty lines.
EmptyCode == [nlines |-> 2, blank |-> {0, 1}, tree |-> <<Node(0, 1, 0)>>]

VARIABLES
    rt      \* this.tree_cache, the entry of this.tree_context_cache for
            \* the file (its context is tc), and the last render_tree call
renderVars == <<rt>>

NoRender ==
    [valid |-> FALSE, tags |-> << >>, lois |-> << >>, content |-> 0,
     readable |-> TRUE, mtime |-> NoInt, hit |-> FALSE, rebuilt |-> FALSE,
     startShow |-> {}, startDone |-> {}, res |-> << >>]
NoRenderState ==
    [tree_cache |-> {}, has_context |-> FALSE, context_mtime |-> NoInt,
     last |-> NoRender]

\* A key without the lines of interest.
TreeKey_NoLois(rel_fname, lois, mtime) ==
    [rel_fname |-> rel_fname, lois |-> << >>, mtime |-> mtime]

\* JSON.stringify([rel_fname, lois.sort(), mtime])
TreeKey(rel_fname, lois, mtime) ==
    [rel_fname |-> rel_fname, lois |-> SortLois(lois), mtime |-> mtime]

\* lines 762-765 on a context: the lines of interest are replaced,
\* add_context and format run.
Rendered(context, lois) ==
    LET t1 == [context EXCEPT !.lines_of_interest = Range(lois)]
        t2 == IF t1.lines_of_interest = {} THEN t1
              ELSE [t1 EXCEPT
                      !.showLines = AddContext(t1).showLines,
                      !.doneParentScopes = AddContext(t1).doneParentScopes]
    IN [t2 EXCEPT !.output =
           IF t2.showLines = {} THEN << >>
           ELSE FormatLoop(t2, 0, t2.nlines - 1)]

\* render_tree(abs_fname, rel_fname, lois), lines 727-770; tags are the
\* tags to_tree took the lines from.
render_tree(abs_fname, rel_fname, lois, tags) ==
    LET mtime == get_mtime(abs_fname)
        key == TreeKey(rel_fname, lois, mtime)
        file == fs[abs_fname.file]
        call == [NoRender EXCEPT !.valid = TRUE, !.tags = tags,
                                 !.lois = lois, !.content = file.content,
                                 !.readable = file.exists, !.mtime = mtime]
    IN
    IF \E e \in rt.tree_cache : e.key = key
    THEN /\ rt' = [rt EXCEPT !.last =
                     [call EXCEPT !.hit = TRUE,
                        !.res = (CHOOSE e \in rt.tree_cache : e.key = key).res]]
         /\ UNCHANGED ctxVars
    ELSE LET rebuild == ~rt.has_context \/ rt.context_mtime # mtime
             context == IF rebuild
                        THEN NewContext(RenderTreeOptions,
                                        IF file.exists THEN CodeOf(file.content)
                                        ELSE EmptyCode)
                        ELSE tc
             done == Rendered(context, lois)
         IN /\ tc' = done
            /\ tpc' = "done"
            /\ rt' = [tree_cache |-> rt.tree_cache \cup
                                       {[key |-> key, res |-> done.output]},
                      has_context |-> TRUE,
                      context_mtime |-> mtime,
                      last |-> [call EXCEPT
                                  !.rebuilt = rebuild,
                                  !.startShow = Range(lois),
                                  !.startDone = context.doneParentScopes,
                                  !.res = done.output]]

\* to_tree on the first k tags of a file alone (lines 708-714): the lines
\* of the tags are the lines of interest.
to_tree_single(f, k) ==
    LET file == fs[f]
        all == getTagsRaw(OkEnv, Path(f), RelPath(f), file.exists,
                          Contents[file.content]).tags
        tags == SubSeq(all, 1, k)
        tree == to_tree(tags, {})
    IN /\ k <= Len(all)
       /\ tree.blocks # << >>
       /\ tree.blocks[1].kind = "excerpt"
       /\ render_tree(tree.blocks[1].abs, tree.blocks[1].fname,
                      Map(SelectSeq(tags, HasLine), LAMBDA t : t.line), tags)
       /\ UNCHANGED tagVars

\* line 577: get_ranked_tags_map_uncached clears the tree cache.
tree_cache_clear ==
    /\ rt.tree_cache # {}
    /\ rt' = [rt EXCEPT !.tree_cache = {}]
    /\ UNCHANGED ctxVars
    /\ UNCHANGED tagVars

\* ------------------------------------------------------ overlapping calls
\* Two get_ranked_tags_map_uncached calls on one instance. The call that
\* runs has its locals in r, rpc, mc and mpc; the other is suspended at an
\* await with its locals parked. versions: per file, the mtimes it had with
\* the content it had then, for every write made while the calls run.
VARIABLES
    ov
overlapVars == <<ov>>

Locals == [r |-> r, rpc |-> rpc, mc |-> mc, mpc |-> mpc]
NoOverlap ==
    [parked |-> [r |-> NoRank, rpc |-> "idle", mc |-> NoMapCall,
                 mpc |-> "idle"],
     running |-> 1,
     versions |-> [f \in Files |-> {}]]

\* The awaits: of getTagsRaw in getTags (line 204), of getTags in the loop
\* of getRankedTags (line 339) and in its shortcut (line 325), of
\* getRankedTags (line 544); and between calls.
Suspended ==
    \/ rpc = "set"
    \/ rpc = "stat" /\ r.i > 1
    \/ mpc = "rank" /\ rpc = "idle"
    \/ mpc = "idle"

\* The running call is suspended and the other one resumes, or starts.
ov_switch ==
    /\ Suspended
    /\ r' = ov.parked.r /\ rpc' = ov.parked.rpc
    /\ mc' = ov.parked.mc /\ mpc' = ov.parked.mpc
    /\ ov' = [ov EXCEPT !.parked = Locals, !.running = 3 - @]
    /\ UNCHANGED <<fs, clock, TAGS_CACHE, g>>

\* getTags of the running call writes its entry: a new array, so the
\* array the suspended call got for that file is no longer the cached one.
ov_getTags_set ==
    /\ getTags_set("returns")
    /\ ov' = [ov EXCEPT !.parked.r.aliased =
                @ /\ ov.parked.r.fnames # << >>
                  /\ ov.parked.r.fnames[1] # r.fnames[r.i]]

\* A file is written while the calls run.
ov_modify(f, content) ==
    /\ Modify(f, content)
    /\ ov' = [ov EXCEPT !.versions[f] =
                @ \cup {[mtime |-> clock + 1, content |-> content]}]
    /\ UNCHANGED mapVars

\* ------------------------------------------------------- specifications
vars == <<options, refresh, max_map_tokens, map_mul_no_files,
          max_context_window, repo_content_prefix, last_map, map_cache,
          map_processing_time, pc, c, tripped, fs, clock, TAGS_CACHE, r,
          rpc, g, mc, mpc, tc, tpc, rt, ov>>

\* The instance getRepMap.ts constructs (lines 83-87).
DefaultOptions ==
    [map_tokens |-> SomeInt(1024), max_context_window |-> NoInt,
     map_mul_no_files |-> NoInt, repo_content_prefix |-> NoText,
     refresh |-> "auto"]

\* The orchestrator: get_repo_map calls on instances of every configuration,
\* over renderings of every length.
Init ==
    /\ OrchInit
    /\ fs = [f \in Files |-> [exists |-> TRUE, mtime |-> 0, content |-> 1]]
    /\ clock = 0
    /\ TAGS_CACHE = [p \in PathChoices |-> NoEntry]
    /\ r = NoRank
    /\ rpc = "idle"
    /\ g = NoGet
    /\ mc = NoMapCall
    /\ mpc = "idle"
    /\ tc = NoContext
    /\ tpc = "new"
    /\ rt = NoRenderState
    /\ ov = NoOverlap
Next ==
    /\ OrchNext /\ UNCHANGED tagVars /\ UNCHANGED mapVars
    /\ UNCHANGED ctxVars /\ UNCHANGED renderVars /\ UNCHANGED overlapVars
Spec == Init /\ [][Next]_vars

\* The ranker with the tag cache and the extractor, over files that change.
InitTags(contents) ==
    /\ TagInit(contents)
    /\ Constructed(DefaultOptions)
    /\ pc = "idle"
    /\ c = NoCall
    /\ tripped = FALSE
    /\ mc = NoMapCall
    /\ mpc = "idle"
    /\ tc = NoContext
    /\ tpc = "new"
    /\ rt = NoRenderState
    /\ ov = NoOverlap
NextTags ==
    /\ \/ RankNext({<< >>}, {<<Path(1)>>, <<Path(2)>>}, {{}}, {OkEnv})
       \/ FsNext({1, 3})
    /\ UNCHANGED orchVars
    /\ UNCHANGED mapVars
    /\ UNCHANGED ctxVars
    /\ UNCHANGED renderVars
    /\ UNCHANGED overlapVars
SpecTags == InitTags({1}) /\ [][NextTags]_vars

\* The extractor in every environment, over files that do not change.
NextExtract ==
    /\ RankNext({<< >>}, {<<Path(1)>>, <<Path(1), Path(2)>>}, {{}}, EnvChoices)
    /\ UNCHANGED orchVars
    /\ UNCHANGED mapVars
    /\ UNCHANGED ctxVars
    /\ UNCHANGED renderVars
    /\ UNCHANGED overlapVars
SpecExtract == InitTags(1..Len(Contents)) /\ [][NextExtract]_vars

\* The ranker on every input, over files that do not change.
NextRank ==
    /\ RankNext(RankChatChoices, RankOtherChoices, MentionedChoices, {OkEnv})
    /\ UNCHANGED orchVars
    /\ UNCHANGED mapVars
    /\ UNCHANGED ctxVars
    /\ UNCHANGED renderVars
    /\ UNCHANGED overlapVars

\* What the two files hold, for the ranker.
RankContents == {<<1, 7>>, <<5, 6>>, <<8, 9>>, <<1, 3>>, <<2, 4>>, <<7, 8>>,
                 <<9, 1>>, <<3, 3>>}
InitRank ==
    /\ InitTags(1..Len(Contents))
    /\ <<fs[1].content, fs[2].content>> \in RankContents
SpecRank == InitRank /\ [][NextRank]_vars

\* The fitter over the ranker: get_ranked_tags_map_uncached on every input,
\* over texts of every length.
MapChatChoices == {<< >>, <<Path(1)>>, <<Path(2)>>}
MapOtherChoices == {<<Path(1)>>, <<Path(2)>>, <<Path(1), Path(2)>>}
MapTokensArgs == {NoInt, SomeInt(25)}
MapLenChoices == {0, 1, 40, 90, 4000}
MapContents == {<<1, 4>>, <<5, 6>>, <<8, 9>>, <<1, 7>>}
InitMap ==
    /\ InitTags(1..Len(Contents))
    /\ <<fs[1].content, fs[2].content>> \in MapContents
NextMap ==
    /\ \/ \E chat \in MapChatChoices, other \in MapOtherChoices,
             tokens \in MapTokensArgs, lib \in LibChoices :
             map_start(chat, other, tokens, {}, lib)
       \/ (\E lib \in LibChoices : getTags_stat(lib)) /\ UNCHANGED mapVars
       \/ getTags_extract(OkEnv) /\ UNCHANGED mapVars
       \/ (\E lib \in LibChoices : getTags_set(lib)) /\ UNCHANGED mapVars
       \/ map_ranked
       \/ \E len \in MapLenChoices : map_fit(len)
       \/ map_return
    /\ UNCHANGED orchVars
    /\ UNCHANGED ctxVars
    /\ UNCHANGED renderVars
    /\ UNCHANGED overlapVars
SpecMap == InitMap /\ [][NextMap]_vars

\* The search alone, over synthetic ranked tags of two files and over every
\* assignment of text lengths to their prefixes.
FitBudgets == {25, 100}
FitLens == {40, 90, 110, 380, 4000}
SyntheticTags(n) ==
    [i \in 1..n |->
        [rel_fname |-> RelPath(1 + (i % 2)), fname |-> Path(1 + (i % 2)),
         name |-> "foo", kind |-> "def", line |-> i]]
InitFit ==
    /\ TagInit({1})
    /\ Constructed(DefaultOptions)
    /\ pc = "idle"
    /\ c = NoCall
    /\ tripped = FALSE
    /\ \E n \in 0..MaxFit, budget \in FitBudgets :
          \E est \in [1..n -> FitLens] :
             mc = Fitting([NoMapCall EXCEPT !.valid = TRUE,
                                            !.max_map_tokens = budget,
                                            !.est = est],
                          SyntheticTags(n))
    /\ mpc = "fit"
    /\ tc = NoContext
    /\ tpc = "new"
    /\ rt = NoRenderState
    /\ ov = NoOverlap
NextFit ==
    /\ \/ map_fit(IF mc.middle = 0 THEN 0 ELSE mc.est[mc.middle])
       \/ map_return
    /\ UNCHANGED orchVars
    /\ UNCHANGED ctxVars
    /\ UNCHANGED renderVars
    /\ UNCHANGED overlapVars
SpecFit == InitFit /\ [][NextFit]_vars

\* The renderer alone: one TreeContext per file shape, with the default
\* options and with render_tree's, rendered around line 50, around two
\* lines three apart and around the last line but one.
ContextOptions == {TreeContextDefaults, RenderTreeOptions}
LoiChoices == {{50}, {10, 13}, {98}}
InitContext ==
    /\ InitTags({1})
    /\ tc = NoContext
    /\ tpc = "new"
    /\ rt = NoRenderState
    /\ ov = NoOverlap
NextContext ==
    /\ \/ \E opts \in ContextOptions, newline \in BOOLEAN,
             blank \in BlankChoices, enc \in EnclosingChoices,
             at \in AtChoices :
             TreeContext(opts, MkCode(newline, blank, enc, at))
       \/ \E lineNums \in LoiChoices : add_lines_of_interest(lineNums)
       \/ add_context
       \/ format
    /\ UNCHANGED orchVars
    /\ UNCHANGED tagVars
    /\ UNCHANGED mapVars
    /\ UNCHANGED renderVars
    /\ UNCHANGED overlapVars
SpecContext == InitContext /\ [][NextContext]_vars


\* render_tree on one file, for the lines of every prefix of its tags, with
\* the tree cache cleared and the file rewritten in between.
RenderContents == {1, 3}
MaxPrefix == 3
InitRender ==
    /\ InitTags({1})
    /\ fs[1].content \in RenderContents
NextRender ==
    /\ \/ (\E k \in 1..MaxPrefix : to_tree_single(1, k))
       \/ tree_cache_clear
       \/ (\E content \in RenderContents : Modify(1, content))
            /\ UNCHANGED ctxVars /\ UNCHANGED renderVars
    /\ UNCHANGED orchVars
    /\ UNCHANGED mapVars
    /\ UNCHANGED overlapVars
SpecRender == InitRender /\ [][NextRender]_vars


\* Two overlapping calls over a file with definitions and an important file
\* that is rewritten.
OverlapOtherChoices == {<<Path(2)>>, <<Path(1), Path(2)>>}
OverlapLenChoices == {1, 90}
OverlapContents == {9}
OverlapStart == <<8, 4>>
InitOverlap ==
    /\ InitTags({4, 8})
    /\ \A f \in Files : fs[f].content = OverlapStart[f]
NextOverlap ==
    /\ \/ (\E other \in OverlapOtherChoices :
             map_start(<< >>, other, NoInt, {}, "returns"))
            /\ UNCHANGED overlapVars
       \/ getTags_stat("returns") /\ UNCHANGED mapVars /\ UNCHANGED overlapVars
       \/ getTags_extract(OkEnv) /\ UNCHANGED mapVars /\ UNCHANGED overlapVars
       \/ ov_getTags_set /\ UNCHANGED mapVars
       \/ map_ranked /\ UNCHANGED overlapVars
       \/ (\E len \in OverlapLenChoices : map_fit(len)) /\ UNCHANGED overlapVars
       \/ map_return /\ UNCHANGED overlapVars
       \/ ov_switch
       \/ \E content \in OverlapContents : ov_modify(2, content)
    /\ UNCHANGED orchVars
    /\ UNCHANGED ctxVars
    /\ UNCHANGED renderVars
SpecOverlap == InitOverlap /\ [][NextOverlap]_vars


\* ------------------------------------------------------------------ claims
\* The last call did no work: it returned at line 134.
ReturnedAtOnce ==
    /\ pc = "idle"
    /\ c.source = "none"
    /\ ~c.ranked
    /\ c.renders = 0
    /\ ~c.ret.set

\* C1: once a call has caught a RangeError, that call returns undefined, the
\* token budget is 0 and stays 0, and every later call, whatever its inputs,
\* returns undefined at once, with no ranking and no fitting.
C1_CircuitBreaker ==
    /\ (tripped => max_map_tokens = 0)
    /\ (c.threw = "range" => pc = "idle" /\ ~c.ret.set /\ tripped)
    /\ (c.valid /\ c.trippedBefore => ReturnedAtOnce /\ c.threw = "none")

\* C1 witness: after a RangeError, a later call with files and force_refresh
\* has returned.
C1_Witness ==
    /\ c.valid /\ c.trippedBefore /\ c.force
    /\ c.other.set /\ Len(c.other.v) > 0
    /\ pc = "idle"

\* C2 as claimed: a call returns undefined at once whenever the configured
\* budget is <= 0 (an instance constructed with budget 0 included) or no
\* candidate files were supplied (other_files empty or absent).
C2_UndefinedAtOnce ==
    LET disabled == \/ c.configured <= 0
                    \/ (options.map_tokens.set /\ options.map_tokens.v <= 0)
        nofiles == ~c.other.set \/ c.other.v = << >>
    IN  c.valid /\ (disabled \/ nofiles) => ReturnedAtOnce

\* C3 as claimed: a computation that completes with an empty fitted text
\* returns the empty string, and undefined is returned only when nothing was
\* computed (the guard of line 134, or an error).
C3_EmptyStringReturned ==
    c.valid /\ pc = "idle" =>
        /\ (c.source = "uncached" /\ c.threw = "none"
              /\ c.files_listing = SomeText(<< >>)
            => c.ret = SomeText(<< >>))
        /\ (~c.ret.set => c.source = "none" \/ c.threw # "none")

\* C3 amended: a call returns a string exactly when it obtained a non-empty
\* listing without error, and that string ends with the listing; a
\* computation that completes with an empty fitted text returns undefined.
C3_EmptyIsUndefined ==
    c.valid /\ pc = "idle" =>
        /\ c.ret.set <=> (c.files_listing.set /\ Truthy(c.files_listing.v)
                            /\ c.threw = "none")
        /\ c.ret.set =>
              LET n == Len(c.ret.v)
                  m == Len(c.files_listing.v)
              IN  /\ n >= m
                  /\ SubSeq(c.ret.v, n - m + 1, n) = c.files_listing.v
                  /\ Truthy(c.ret.v)

\* C3 witness: a computation over some files rendered at least once, ended
\* with an empty fitted text and returned undefined.
C3_Witness ==
    /\ c.valid /\ pc = "idle"
    /\ c.source = "uncached" /\ c.threw = "none"
    /\ c.ranked /\ c.renders = 1
    /\ Len(c.other.v) > 0
    /\ c.files_listing = SomeText(<< >>)
    /\ ~c.ret.set

\* C4 as claimed: under 'manual' without force_refresh, a call that follows
\* a call which obtained a map returns that map with no ranking or fitting.
C4_ManualReusesLastMap ==
    c.valid /\ refresh = "manual" /\ ~c.force
      /\ c.configured > 0 /\ c.other.set
      /\ c.prevListing.set /\ Truthy(c.prevListing.v)
    => /\ pc = "idle"
       /\ c.source = "manual"
       /\ ~c.ranked /\ c.renders = 0
       /\ c.files_listing = c.prevListing

\* C5 as claimed: under 'files', and under 'auto' once the previous
\* computation was slow, a call without force_refresh whose key equals the
\* key of the computation before it returns that computation's text with no
\* ranking or fitting; under 'auto' after a fast computation nothing cached
\* is returned.
C5_CacheReusesEqualKey ==
    /\ (c.valid /\ ~c.force /\ c.configured > 0 /\ c.other.set
          /\ c.prevComputed /\ c.sameKey
          /\ (refresh = "files" \/ (refresh = "auto" /\ c.prevSlow))
        => /\ pc = "idle"
           /\ c.source = "cache"
           /\ ~c.ranked /\ c.renders = 0
           /\ c.files_listing = c.prevListing)
    /\ (c.valid /\ refresh = "auto" /\ c.prevComputed /\ ~c.prevSlow
        => c.source # "cache")

\* The last getTags call ran the extractor and something failed in it: the
\* parser, the language or the query file was missing, the file could not
\* be read or was empty, or parsing or querying threw.
ExtractionFailed ==
    /\ g.valid /\ g.extracted
    /\ \/ g.env # OkEnv
       \/ ~g.readable
       \/ Contents[g.content].empty

Logged(levels) == \E i \in 1..Len(g.logs) : g.logs[i] \in levels

\* C6: a getTags call that finds the cached mtime equal to the file's returns
\* the cached list and does not extract; any other call on a stat-able file
\* extracts and overwrites; after either, the entry holds the mtime the call
\* observed and the list it returned.
C6_CacheFollowsMtime ==
    g.valid /\ g.statOk =>
        /\ g.mtime.set
        /\ g.hit <=> (g.before.has /\ g.before.mtime = g.mtime.v)
        /\ g.hit => ~g.extracted /\ g.ret = g.before.data
        /\ ~g.hit => g.extracted
        /\ TAGS_CACHE[g.fname] = Entry(g.mtime.v, g.ret)

\* C6 witness: a call reused the entry that an earlier call had written
\* after the file was modified.
C6_Witness ==
    /\ g.valid /\ g.statOk /\ g.hit
    /\ g.mtime.v > 0
    /\ g.ret # << >>

\* C7: a getTags call whose stat fails returns [] without extracting and
\* leaves the entry of the path as it was, present or absent.
C7_StatFailureLeavesCache ==
    g.valid /\ ~g.statOk =>
        /\ ~g.mtime.set
        /\ g.ret = << >>
        /\ ~g.extracted /\ ~g.hit
        /\ TAGS_CACHE[g.fname] = g.before

\* C7 witness: stat failed on a path that had an entry with tags.
C7_Witness ==
    /\ g.valid /\ ~g.statOk
    /\ g.before.has /\ g.before.data # << >>

\* C8 as claimed: extraction never throws, and on every failure it returns
\* [] and hands a warning or an error to the logger.
C8_FailureIsLogged ==
    ExtractionFailed =>
        /\ ~g.threw
        /\ g.ret = << >>
        /\ Logged({"warning", "error"})

\* C8 amended: extraction never throws and returns [] on every failure, and
\* getRankedTags goes on to the other files; a warning or an error reaches
\* the logger exactly when the parser, the language or the query file is
\* missing or the file read is empty, and nothing does when an exception was
\* caught (setup, unreadable file, parse or query error).
C8_FailureIsEmpty ==
    /\ ~g.threw
    /\ ExtractionFailed =>
          /\ g.ret = << >>
          /\ Logged({"warning", "error"}) <=>
                /\ g.env.throws # "setup"
                /\ \/ ~g.env.parser \/ ~g.env.lang \/ ~g.env.scm
                   \/ (g.env.throws # "read" /\ g.readable
                         /\ Contents[g.content].empty)
    /\ r.valid /\ rpc = "idle" /\ Len(r.fnames) > 1 =>
          r.pageranked /\ Len(r.tags) = Len(r.fnames)

\* C8 witness: parsing threw on a file with code; [] was returned, nothing
\* was logged, and the call went on to rank with the other file's tags.
C8_Witness ==
    /\ ExtractionFailed
    /\ g.env.throws = "parse" /\ ~Contents[g.content].empty
    /\ g.logs = << >> /\ g.ret = << >>
    /\ rpc = "idle" /\ r.pageranked
    /\ \E i \in 1..Len(r.tags) : r.tags[i] # << >>

\* The tags the claim C9 describes for the captures of one file.
CaptureKind(cap) ==
    IF Len(cap.name) >= 3 /\ cap.name[1] = "name" /\ cap.name[2] = "definition"
    THEN "definition"
    ELSE IF Len(cap.name) >= 3 /\ cap.name[1] = "name"
            /\ cap.name[2] = "reference"
    THEN "reference"
    ELSE "other"

\* C9: a successful extraction returns one tag per capture named
\* name.definition.* or name.reference.*, in capture order, with the node's
\* text and its row plus one, and ignores the other captures; with a
\* reference capture and no definition capture it returns [].
C9_TagsFromCaptures ==
    g.valid /\ g.extracted /\ ~ExtractionFailed =>
        LET caps == Contents[g.content].captures
            kept == SelectSeq(caps, LAMBDA cap : CaptureKind(cap) # "other")
            kinds == {CaptureKind(kept[i]) : i \in 1..Len(kept)}
        IN  IF "reference" \in kinds /\ "definition" \notin kinds
            THEN g.ret = << >>
            ELSE /\ Len(g.ret) = Len(kept)
                 /\ \A i \in 1..Len(kept) :
                       /\ g.ret[i].name = kept[i].text
                       /\ g.ret[i].line = kept[i].row + 1
                       /\ g.ret[i].kind = "def"
                            <=> CaptureKind(kept[i]) = "definition"
                       /\ g.ret[i].kind = "ref"
                            <=> CaptureKind(kept[i]) = "reference"
                       /\ g.ret[i].fname = g.fname
                       /\ g.ret[i].rel_fname = get_rel_fname(g.fname)

\* C9 witness: a file with definition, reference and other captures gave
\* its tags.
C9_Witness ==
    /\ g.valid /\ g.extracted /\ ~ExtractionFailed
    /\ g.content = 3
    /\ Len(g.ret) = 3

\* C10: when chat and other files together hold exactly one file,
\* getRankedTags returns what getTags returned for it, definitions and
\* references alike, and builds no graph and runs no PageRank.
C10_SingleFileShortcut ==
    r.valid /\ rpc = "idle"
      /\ Cardinality(Range(r.chat_fnames) \cup Range(r.other_fnames)) = 1
    => /\ ~r.graphBuilt /\ ~r.pageranked /\ r.graph = NoGraph
       /\ ~r.threw
       /\ g.valid /\ g.fname \in Range(r.chat_fnames) \cup Range(r.other_fnames)
       /\ r.result = g.ret
       /\ g.statOk => r.result = TAGS_CACHE[g.fname].data

\* C10 witness: the one file, given as chat file and as other file, has a
\* definition and a reference, and both were returned.
C10_Witness ==
    /\ r.valid /\ rpc = "idle"
    /\ r.chat_fnames = <<Path(1)>> /\ r.other_fnames = <<Path(1)>>
    /\ \E i, j \in 1..Len(r.result) :
          IsDef(r.result[i]) /\ IsRef(r.result[j])

\* C11: the tags getRankedTags returns hold no tag of a file that chat_fnames
\* lists.
C11_NoChatFileTags ==
    r.valid /\ rpc = "idle" =>
        \A i \in 1..Len(r.result), j \in 1..Len(r.chat_fnames) :
            r.result[i].fname.file # r.chat_fnames[j].file

\* The scenario of C14: a.ts (file 1) defines function foo, b.ts (file 2)
\* calls foo once and defines nothing; no chat files, nothing mentioned.
C14_Scenario ==
    /\ r.valid /\ rpc = "idle"
    /\ r.chat_fnames = << >>
    /\ r.other_fnames = <<Path(1), Path(2)>>
    /\ r.mentioned_idents = {}
    /\ fs[1].content = 5 /\ fs[2].content = 6

\* C14: in that scenario the graph has the one edge b -> a of weight 1,
\* PageRank puts a above b, and the ranked tags hold a's definition of foo
\* before any tag of b.
C14_TwoFileScenario ==
    C14_Scenario =>
        /\ r.graphBuilt
        /\ r.graph.edges = <<[from |-> RelPath(2), to |-> RelPath(1),
                              ident |-> "foo",
                              weight |-> [base2 |-> 2, count |-> 1]]>>
        /\ ~r.threw
        /\ pagerank(r.graph).x[RelPath(1)] > pagerank(r.graph).x[RelPath(2)]
        /\ \E i \in 1..Len(r.result) :
              /\ r.result[i].rel_fname = RelPath(1)
              /\ r.result[i].name = "foo" /\ IsDef(r.result[i])
              /\ \A j \in 1..(i - 1) : r.result[j].rel_fname # RelPath(2)

\* The reference tags of an identifier among the tags getRankedTags got.
ReferenceCount(ident) ==
    Cardinality({p \in {<<i, j>> : i \in 1..Len(r.tags), j \in 1..3} :
                    /\ p[2] <= Len(r.tags[p[1]])
                    /\ r.tags[p[1]][p[2]].kind = "ref"
                    /\ r.tags[p[1]][p[2]].name = ident})

Pairs(graph) == {<<e.from, e.to>> : e \in Range(graph.edges)}

\* C20: at every step of the construction the graph has at most one edge
\* per ordered pair, self-loops included, and each edge carries the
\* identifier and the weight of the first candidate, in construction order,
\* that links its pair.
C20_OneEdgePerPair ==
    r.valid /\ rpc = "idle" /\ r.graphBuilt =>
        LET cands == EdgeCandidates(Concat(r.tags), r.mentioned_idents)
            step(k) == BuildGraph(NoGraph, SubSeq(cands, 1, k))
            first(k, e) == CHOOSE i \in 1..k :
                              /\ cands[i].from = e.from /\ cands[i].to = e.to
                              /\ \A j \in 1..(i - 1) :
                                    ~(cands[j].from = e.from /\ cands[j].to = e.to)
        IN  /\ r.graph = step(Len(cands))
            /\ \A k \in 0..Len(cands) :
                  /\ Cardinality(Pairs(step(k))) = Len(step(k).edges)
                  /\ Pairs(step(k)) = {<<cands[i].from, cands[i].to>> : i \in 1..k}
                  /\ \A e \in Range(step(k).edges) :
                        /\ e.ident = cands[first(k, e)].ident
                        /\ e.weight = cands[first(k, e)].weight

\* C20 witness: the graph has a self-loop, and an edge whose pair a later
\* identifier of another weight links too.
C20_Witness ==
    /\ r.valid /\ rpc = "idle" /\ r.graphBuilt
    /\ \E e \in Range(r.graph.edges) : e.from = e.to
    /\ LET cands == EdgeCandidates(Concat(r.tags), r.mentioned_idents)
       IN  \E e \in Range(r.graph.edges), i \in 1..Len(cands) :
              /\ cands[i].from = e.from /\ cands[i].to = e.to
              /\ cands[i].ident # e.ident
              /\ cands[i].weight # e.weight

\* The last get_repo_map call went past the guard of line 134.
PastGuard == c.valid /\ c.source # "none"

\* C18 as claimed: the budget handed to fitting is never smaller than the
\* configured budget.
C18_NeverSmaller == PastGuard => c.budget >= c.configured

\* C18 amended: the budget handed to fitting is the configured budget,
\* except with no chat files, a context window configured and
\* target = min(floor(budget * multiplier), contextWindow - 4096) positive,
\* when it is that target, be it larger or smaller than the budget.
C18_EffectiveBudget ==
    PastGuard =>
        LET product == c.configured * map_mul_no_files
            room == max_context_window.v - Padding
            target == IF product <= room THEN product ELSE room
        IN  IF c.chat = << >> /\ max_context_window.set /\ target > 0
            THEN c.budget = target
            ELSE c.budget = c.configured

\* C18 witness: a call without chat files was given less than the
\* configured budget, and returned a map.
C18_Witness ==
    /\ PastGuard /\ pc = "idle"
    /\ c.chat = << >>
    /\ c.budget < c.configured
    /\ c.ret.set

\* The files a tree text shows, by a header line or by an excerpt.
TreeFiles(tree) ==
    {tree.blocks[i].fname.file : i \in 1..Len(tree.blocks)}
      \cup {tree.blocks[i].abs.file : i \in 1..Len(tree.blocks)}

\* C12: no chat file is in a tree text the fitter keeps or returns, as a
\* header line or as an excerpt, be it also an other file or an important
\* file.
C12_NoChatFileInTree ==
    mc.valid =>
        \A ch \in Range(mc.chat_fnames) :
            /\ ch.file \notin TreeFiles(mc.ret)
            /\ ch.file \notin TreeFiles(mc.best_tree.v)

\* C12 witness: the important file 2 is a chat file and an other file and
\* has ranked tags, all the ranked tags were rendered, and the text
\* returned shows a file.
C12_Witness ==
    /\ mc.valid /\ mc.done /\ ~mc.threw
    /\ mc.chat_fnames = <<Path(2)>>
    /\ mc.other_fnames = <<Path(1), Path(2)>>
    /\ \E i \in 1..Len(mc.ranked_tags) : mc.ranked_tags[i].rel_fname.file = 2
    /\ mc.rendered = {mc.num_tags}
    /\ mc.ret.blocks # << >>

\* C13: an important file among the other files that is no chat file and
\* that no ranked tag belongs to is in the tree text the fitter returns.
C13_ImportantFileInTree ==
    mc.valid /\ mc.done /\ ~mc.threw =>
        \A p \in Range(mc.other_fnames) :
            /\ p.file \in ImportantFiles
            /\ \A ch \in Range(mc.chat_fnames) : ch.file # p.file
            /\ \A i \in 1..Len(r.result) : r.result[i].rel_fname.file # p.file
            => p.file \in TreeFiles(mc.ret)

\* The estimate, in quarter tokens, of the text of the first k tags.
EstTokens(k) == IF k = 0 THEN 0 ELSE token_count(mc.est[k])

\* C16: the search renders prefixes of 0..N tags only, every iteration that
\* does not stop strictly shrinks [lower_bound, upper_bound], there are at
\* most N + 1 iterations, and the search ends with lower_bound above
\* upper_bound or on a text within 15% of the budget.
C16_FitTerminates ==
    mc.valid =>
        /\ mc.rendered \subseteq 0..mc.num_tags
        /\ mc.iterations <= mc.num_tags + 1
        /\ mpc = "fit" =>
              /\ 0 <= mc.lower_bound /\ mc.upper_bound <= mc.num_tags
              /\ mc.lower_bound <= mc.upper_bound
              /\ 0 <= mc.middle /\ mc.middle <= mc.num_tags
              /\ mc.iterations > 0 =>
                    /\ mc.lower_bound <= mc.middle
                    /\ mc.middle <= mc.upper_bound
        /\ mc.iterations > 0 /\ ~mc.within =>
              /\ mc.lower_bound >= mc.before.lower_bound
              /\ mc.upper_bound <= mc.before.upper_bound
              /\ mc.upper_bound - mc.lower_bound
                   < mc.before.upper_bound - mc.before.lower_bound
        /\ mpc # "fit" => mc.within \/ mc.lower_bound > mc.upper_bound

\* C16 witness: a search over the most tags ended after three iterations
\* or more with lower_bound above upper_bound.
C16_Witness ==
    /\ mc.valid /\ mc.done
    /\ mc.num_tags = MaxFit
    /\ mc.iterations >= 3
    /\ mc.lower_bound > mc.upper_bound

\* The estimate does not decrease with the number of leading tags.
Monotone == \A i, j \in 0..mc.num_tags : i <= j => EstTokens(i) <= EstTokens(j)

\* C17: with such estimates the text returned is that of a prefix, within
\* 15% of the budget if the search met such a text, and otherwise with the
\* largest estimate not above the budget over all prefixes 0..N.
C17_ClosestUnderBudget ==
    mc.valid /\ mc.done /\ Monotone =>
        LET max4 == 4 * mc.max_map_tokens
            under == {k \in 0..mc.num_tags : EstTokens(k) <= max4}
        IN  /\ \E k \in 0..mc.num_tags :
                  /\ mc.ret = to_tree(SubSeq(mc.ranked_tags, 1, k), {})
                  /\ mc.ret_tokens = EstTokens(k)
            /\ IF mc.met
               THEN 100 * Abs(mc.ret_tokens - max4) < OkErrPercent * max4
               ELSE /\ mc.ret_tokens <= max4
                    /\ \A k \in under : EstTokens(k) <= mc.ret_tokens

\* C17 witness: no text within 15% was met, and the text returned is that
\* of a prefix the search reached in its third iteration or later, with
\* prefixes above the budget beyond it.
C17_Witness ==
    /\ mc.valid /\ mc.done /\ Monotone
    /\ ~mc.met
    /\ mc.iterations >= 3
    /\ mc.ret_tokens > 0
    /\ EstTokens(mc.num_tags) > 4 * mc.max_map_tokens

\* The lines format prints, and the printed positions of the markers.
PrintedLines == {tc.output[p].i : p \in {q \in DOMAIN tc.output : tc.output[q].k = "line"}}
TopMargin == 0..(TreeContextDefaults.margin - 1)
IsRegion(S) == S # {} /\ \A i \in S, j \in S : i..j \subseteq S
\* A rendering of the 100-line file with the default options around line 50.
DefaultRendering ==
    /\ tpc = "done"
    /\ tc.options = TreeContextDefaults
    /\ tc.lines_of_interest = {50}
\* The printed lines are the shown ones in order, and every hidden line
\* stands behind a marker printed between its shown neighbours.
Elided ==
    /\ PrintedLines = tc.showLines \cap 0..(tc.nlines - 1)
    /\ \A p \in DOMAIN tc.output, q \in DOMAIN tc.output :
          (p < q /\ tc.output[p].k = "line" /\ tc.output[q].k = "line")
             => tc.output[p].i < tc.output[q].i
    /\ \A i \in (0..(tc.nlines - 1)) \ tc.showLines :
          \E p \in DOMAIN tc.output :
             /\ tc.output[p].k = "dots"
             /\ \A q \in DOMAIN tc.output :
                   tc.output[q].k = "line" => (q < p <=> tc.output[q].i < i)
\* The blank line that closeSmallGaps shows after the margin.
AfterMargin ==
    {i \in {TreeContextDefaults.margin} :
        i \in tc.blank /\ (i - 1) \notin tc.blank}
BottomLine == tc.nlines - 1

\* C19 as stated: the top margin is shown, the shown lines other than the
\* margin form exactly one contiguous region that contains line 50, and
\* every other line is hidden behind an elision marker.
C19_OneRegion ==
    DefaultRendering =>
       /\ TopMargin \subseteq PrintedLines
       /\ IsRegion(PrintedLines \ TopMargin)
       /\ 50 \in PrintedLines \ TopMargin
       /\ Elided

\* C19, amended: the top margin is shown, with the blank line that follows
\* it; the last line of the file is shown; the shown lines other than these
\* form exactly one contiguous region, which contains lines 49 to 51; every
\* other line is hidden behind an elision marker.
C19_RegionAndLastLine ==
    DefaultRendering =>
       /\ TopMargin \subseteq PrintedLines
       /\ BottomLine \in PrintedLines
       /\ IsRegion(PrintedLines \ (TopMargin \cup AfterMargin \cup {BottomLine}))
       /\ 49..51 \subseteq PrintedLines \ (TopMargin \cup AfterMargin \cup {BottomLine})
       /\ Elided
\* A default rendering of a file where line 50 lies in two nested scopes and
\* starts a node of more than five lines with children.
C19_Witness ==
    /\ DefaultRendering
    /\ Cardinality(tc.scopes[50]) >= 4
    /\ tc.nodes[50] # << >>
    /\ getLastLineOfScope(tc, 50) - 50 >= 5
    /\ Cardinality({p \in DOMAIN tc.output : tc.output[p].k = "dots"}) = 2

\* The sizes of the nodes that start at line L.
SizesAt(L) == {NodeSize(tc.tree, tc.nodes[L][j]) : j \in 1..Len(tc.nodes[L])}

\* C23: after construction, the header range of a line at which a node
\* starts is [L, L + min(size, headerMax)) when the node spans more than one
\* line, and [L, L + 1) otherwise.
C23_HeaderRanges ==
    tpc # "new" =>
       \A L \in 0..(tc.numLines - 1) :
          tc.nodes[L] # << >> =>
             IF \E size \in SizesAt(L) : size > 0
             THEN \E size \in SizesAt(L) :
                     /\ size > 0
                     /\ tc.header[L] = <<L, L + Min(size, tc.options.headerMax)>>
             ELSE tc.header[L] = <<L, L + 1>>

\* C25: after add_context no hidden line has both its neighbours shown, and
\* the blank line after a shown non-blank line is shown.
C25_GapsClosed ==
    (tpc \in {"context", "done"} /\ tc.lines_of_interest # {}) =>
       /\ \A i \in 1..(tc.nlines - 2) :
             ((i - 1) \in tc.showLines /\ (i + 1) \in tc.showLines)
                => i \in tc.showLines
       /\ \A i \in 0..(tc.nlines - 2) :
             (i \in tc.showLines /\ i \notin tc.blank /\ (i + 1) \in tc.blank)
                => (i + 1) \in tc.showLines

\* C21: in the multi-file case the nodes of the graph are exactly the input
\* files, by their relative paths, for which getTags gave at least one tag.
C21_NodesAreTaggedFiles ==
    (r.valid /\ rpc = "idle" /\ r.graphBuilt /\ Len(r.fnames) >= 2) =>
        Range(r.graph.nodes) =
           {get_rel_fname(r.fnames[i]) :
               i \in {j \in 1..Len(r.fnames) : r.tags[j] # << >>}}

\* C22: the best tree, when there is one, is the text of a prefix the search
\* rendered, with an estimate not above the budget or within 15% of it, so
\* below 1.15 times the budget; without one the search returns ''; and a
\* text within 15% ends the search at once.
C22_BestIsAcceptable ==
    mc.valid =>
        LET max4 == 4 * mc.max_map_tokens IN
        /\ mc.best_tree.set =>
              /\ \E k \in mc.rendered :
                    /\ mc.best_tree.v = to_tree(SubSeq(mc.ranked_tags, 1, k),
                                                ChatRel(mc.chat_fnames))
                    /\ mc.best_tree_tokens = EstTokens(k)
              /\ \/ mc.best_tree_tokens <= max4
                 \/ WithinErr(mc.best_tree_tokens, max4)
              /\ 100 * mc.best_tree_tokens < (100 + OkErrPercent) * max4
        /\ mc.done =>
              /\ mc.ret = IF mc.best_tree.set THEN mc.best_tree.v ELSE EmptyText
              /\ 100 * mc.ret_tokens < (100 + OkErrPercent) * max4
        /\ \A k \in mc.rendered :
              WithinErr(EstTokens(k), max4) =>
                 /\ mc.met /\ mc.within /\ mpc # "fit"
                 /\ mc.best_tree_tokens = EstTokens(k)
                 /\ \A j \in mc.rendered \ {k} : ~WithinErr(EstTokens(j), max4)

\* C22 witness: after two iterations or more the search returned a text
\* above the budget, by less than 15%.
C22_Witness ==
    /\ mc.valid /\ mc.done /\ mc.best_tree.set
    /\ mc.iterations >= 2
    /\ mc.ret_tokens > 4 * mc.max_map_tokens

\* The blocks C26 expects of to_tree: per file of the tags that is no chat
\* file, in the order of first appearance, an excerpt from all the lines of
\* its tags if a tag of it has a line, its header line alone otherwise.
ExpectedBlocks(tags, chat_rel_fnames) ==
    LET files == SelectSeq(Distinct(Map(tags, LAMBDA t : t.rel_fname)),
                           LAMBDA fn : fn \notin chat_rel_fnames)
        of(fn) == SelectSeq(tags, LAMBDA t : t.rel_fname = fn /\ HasLine(t))
    IN  Map(files, LAMBDA fn :
            IF of(fn) = << >> THEN Header(fn)
            ELSE Excerpt(fn, of(fn)[1].fname,
                         Map(of(fn), LAMBDA t : t.line)))

\* C26: to_tree emits every file of the tags that is no chat file once, in
\* the order of first appearance, the last one included, for several files
\* and for one.
C26_EachFileOnce ==
    mc.valid =>
        \A k \in mc.rendered \ {0} :
            to_tree(SubSeq(mc.ranked_tags, 1, k), ChatRel(mc.chat_fnames)).blocks
              = ExpectedBlocks(SubSeq(mc.ranked_tags, 1, k),
                               ChatRel(mc.chat_fnames))

\* The lines a text of format prints.
PrintedOf(res) == {res[p].i : p \in {q \in DOMAIN res : res[q].k = "line"}}

\* What render_tree returns on an instance that never rendered the file.
FreshRender(call) ==
    Rendered(NewContext(RenderTreeOptions,
                        IF call.readable THEN CodeOf(call.content)
                        ELSE EmptyCode),
             call.lois).output

\* C24: a render_tree call that the tree cache does not serve starts its
\* expansion with the lines to show seeded from its lines of interest alone
\* and with no parent scope marked done.
C24_FreshRenderState ==
    (rt.last.valid /\ ~rt.last.hit) =>
        /\ rt.last.startShow = Range(rt.last.lois)
        /\ rt.last.startDone = {}

\* C29: every definition tag rendered has the line of its identifier, its
\* 1-based line, among the lines the excerpt shows.
C29_TagLineShown ==
    rt.last.valid =>
        \A i \in 1..Len(rt.last.tags) :
            IsDef(rt.last.tags[i]) =>
               (rt.last.tags[i].line - 1) \in PrintedOf(rt.last.res)

BothCalls == {Locals, ov.parked}

\* C27: within one call, also with another call interleaved, the graph has
\* its first edge only when the tags of every file of the union of chat and
\* other files are in, PageRank runs on the complete graph, and nothing is
\* rendered by the search before the ranking is complete.
C27_PhasesInOrder ==
    \A call \in BothCalls :
        /\ call.r.graphBuilt => Len(call.r.tags) = Len(call.r.fnames)
        /\ call.r.pageranked =>
              /\ call.r.graphBuilt
              /\ call.r.graph =
                    BuildGraph(NoGraph,
                               EdgeCandidates(Concat(call.r.tags),
                                              call.r.mentioned_idents))
        /\ (call.mc.valid /\ call.mc.rendered # {}) =>
              /\ call.rpc = "idle"
              /\ call.mpc \in {"fit", "ret", "idle"}
              /\ Len(call.r.fnames) = 1 \/ call.r.pageranked

C27_Witness ==
    /\ mc.done /\ mc.rendered # {}
    /\ r.pageranked /\ r.graph.nodes # << >>
    /\ ov.parked.mc.valid /\ ov.parked.mpc = "rank"
    /\ ov.parked.r.tags # << >>

\* What a file's content gave when it had the mtime given: the mtimes the
\* file has had, each with the tags of the content it had then.
VersionTags(fname) ==
    {[mtime |-> v.mtime,
      data |-> getTagsRaw(OkEnv, fname, get_rel_fname(fname), TRUE,
                          Contents[v.content]).tags] :
        v \in ov.versions[fname.file]
                 \cup {[mtime |-> 0, content |-> OverlapStart[fname.file]]}}

\* C28: with two overlapping calls and files changing, every tag-cache
\* entry pairs an mtime with the tags extracted from the content the file
\* had at that mtime, and a cache hit never serves anything else.
C28_EntriesMatchVersions ==
    /\ \A p \in PathChoices :
          TAGS_CACHE[p].has =>
            [mtime |-> TAGS_CACHE[p].mtime, data |-> TAGS_CACHE[p].data]
               \in VersionTags(p)
    /\ (g.valid /\ g.hit) =>
          [mtime |-> g.mtime.v, data |-> g.ret] \in VersionTags(g.fname)
====
